---- MODULE Spec2Model ----
(***************************************************************************)
(* Verification model of the sun / window / plant hit test                 *)
(* (sun_plant_simulator.core: geometry, models, ray_casting, hit_test) and *)
(* of the time-range simulation (simulator.time_range).                    *)
(*                                                                         *)
(* NUMBERS.  The source computes in IEEE doubles.  The model computes      *)
(* exactly, on inputs chosen so that every value is a rational:            *)
(*                                                                         *)
(*  - a LENGTH (coordinate, width, height, thickness) is an integer count  *)
(*    of units of 1e-10 m, the default epsilon of ray_casting.py; Epsilon  *)
(*    is therefore one unit, and the tolerance of the bounds tests is      *)
(*    visible on the grid.  The code places no lower limit on its inputs,  *)
(*    so such a geometry is an input of the code like any other.           *)
(*  - a DIRECTION NUMBER (a vector component, a sine, a cosine) is a       *)
(*    triple <<a, b, c>>.  For a sine or cosine it stands for a/5 + b*r,   *)
(*    for a product of two (a vector component) for a/25 + b*r/5 + c*r*r,  *)
(*    where r = 6.123e-17 is the residue that the floating-point sine and  *)
(*    cosine leave where the exact value is 0:                             *)
(*    cos(radians(90)) = 6.123e-17 is one residue, sin(radians(180)) =     *)
(*    1.2246e-16 is two (the residues are the multiples of                 *)
(*    pi/2 - double(pi/2)).  With |a|, |b|, |c| small the value is ordered *)
(*    lexicographically, and its magnitude is < 1e-10 iff a = 0.           *)
(*  - a quotient is kept as numerator and denominator; comparisons are     *)
(*    cross-multiplied.                                                    *)
(*                                                                         *)
(* Rounding of the double operations themselves is not modelled: an offset *)
(* that lies exactly on a tolerance limit is decided exactly, where the    *)
(* doubles may fall one ulp to either side of it.                          *)
(***************************************************************************)
EXTENDS Integers, Sequences, FiniteSets, TLC

VARIABLES
    \* one call of ray_window_intersection
    ray_pc, ray_origin, ray_direction, window, ray_result,
    \* one call of check_sun_hits_plant
    pc, sun_azimuth_deg, sun_elevation_deg, plant, windows, n_angular,
    n_vertical, wall1_normal_azimuth, sun_dir, sample_points, point_index,
    window_index, hit_points, hit_window_id, result,
    \* the dictionary returned by get_detailed_hit_info for the same arguments
    detail,
    \* the result of an earlier call of check_sun_hits_plant with the same
    \* arguments
    previous,
    \* one call of a function of geometry.py: the function, its arguments,
    \* what it returned, and (for a direction that was computed by
    \* sun_direction_from_angles) the angles it was computed from
    geo_pc, geo_fn, geo_args, geo_result, geo_source,
    \* one call of simulate_time_range: its argument, its list of results,
    \* the locals of consolidate_to_intervals (result_index is the position
    \* of the loop variable result), and the SimulationResult returned
    sim_pc, sun_data, results, result_index, intervals,
    current_interval_start, current_interval_window, current_interval_count,
    simulation,
    \* one run of check_plant_sun.py: the argument list, the configuration
    \* files it can find, the locals of main(), the exception being handled,
    \* what was printed on stdout, and the exit status
    cli_pc, args, cli_files, azimuth, elevation, config_path, cli_error,
    stdout, exit_status,
    \* the service module of homeassistant/service.py: its two globals, the
    \* files on disk, the number of times each was read, and for each thread
    \* its position in load_config or clear_config_cache, the path it was
    \* called with, the Config it has parsed and the value it returned; the
    \* number of calls so far
    cached_config, cached_config_path, disk, reads, svc_pc, svc_path,
    svc_loaded, svc_returned, svc_calls,
    \* one window entry of a configuration dictionary and the Window that
    \* Config.from_dict makes of it
    load_pc, window_dict, loaded_window,
    \* one call of an entry point that takes a Config (or the path of one):
    \* the function, the Config, the sun positions asked about, and what the
    \* call returned
    entry_pc, entry_fn, entry_config, entry_args, entry_result

rayVars == <<ray_pc, ray_origin, ray_direction, window, ray_result>>

hitVars == <<pc, sun_azimuth_deg, sun_elevation_deg, plant, windows, n_angular,
             n_vertical, wall1_normal_azimuth, sun_dir, sample_points,
             point_index, window_index, hit_points, hit_window_id, result,
             detail, previous>>

geoVars == <<geo_pc, geo_fn, geo_args, geo_result, geo_source>>

simVars == <<sim_pc, sun_data, results, result_index, intervals,
             current_interval_start, current_interval_window,
             current_interval_count, simulation>>

cliVars == <<cli_pc, args, cli_files, azimuth, elevation, config_path,
             cli_error, stdout, exit_status>>

svcVars == <<cached_config, cached_config_path, disk, reads, svc_pc, svc_path,
             svc_loaded, svc_returned, svc_calls>>

\* the loader and the entry points that take a Config
cfgVars == <<load_pc, window_dict, loaded_window, entry_pc, entry_fn,
             entry_config, entry_args, entry_result>>

vars == <<rayVars, hitVars, geoVars, simVars, cliVars, svcVars, cfgVars>>

\* Python's None, for an optional string (window_id, reason) and for an
\* optional number or vector (point, t, local_h, local_v, sun_direction)
None == "None"

NoValue == <<>>

-----------------------------------------------------------------------------
(* Integer and direction-number arithmetic *)

Sgn(n) == IF n > 0 THEN 1 ELSE IF n < 0 THEN -1 ELSE 0

Abs(n) == IF n < 0 THEN -n ELSE n

DZero == <<0, 0, 0>>

\* sign of a direction number: a lower order decides only when the higher
\* orders are 0
DSgn(d) ==
    IF d[1] # 0 THEN Sgn(d[1]) ELSE IF d[2] # 0 THEN Sgn(d[2]) ELSE Sgn(d[3])

DAdd(d, e) == <<d[1] + e[1], d[2] + e[2], d[3] + e[3]>>

DSub(d, e) == <<d[1] - e[1], d[2] - e[2], d[3] - e[3]>>

\* a length (integer) times a direction number
DScale(k, d) == <<k * d[1], k * d[2], k * d[3]>>

DAbs(d) == DScale(DSgn(d), d)

DLeq(d, e) == DSgn(DSub(d, e)) <= 0

\* product of two sines or cosines (fifths, residues): exact part in 25ths,
\* then the exact*residue terms in units r/5, then residue*residue in r*r
DMul(d, e) == <<d[1] * e[1], d[1] * e[2] + d[2] * e[1], d[2] * e[2]>>

\* abs(x) < epsilon for a direction number: a # 0 gives at least 1/25,
\* a = 0 leaves a few residues of 6e-17
BelowEpsilon(d) == d[1] = 0

-----------------------------------------------------------------------------
(* geometry.py, models.py: angles and normals *)

\* default epsilon of the ray tests, in length units (1e-10 m each)
Epsilon == 1

\* The angles of the model, in degrees, are the multiples of 90 and 37, 53,
\* 143, 233, -37, where 37 stands for atan(3/4) = 36.8699 degrees and 53
\* for its complement: every sine and cosine is a multiple of 1/5.
\*
\* math.sin(math.radians(a)) in fifths, with the residue of the double result
\* where the exact value is 0, in units of 6.123e-17 (sin(radians(180)) =
\* 1.2246e-16, sin(radians(360)) = -2.4493e-16, sin(radians(0)) = 0.0)
sin_deg(a) ==
    CASE a = -90 -> <<-5, 0, 0>>
      [] a = -37 -> <<-3, 0, 0>>
      [] a = 0   -> <<0, 0, 0>>
      [] a = 37  -> <<3, 0, 0>>
      [] a = 53  -> <<4, 0, 0>>
      [] a = 90  -> <<5, 0, 0>>
      [] a = 143 -> <<3, 0, 0>>
      [] a = 180 -> <<0, 2, 0>>
      [] a = 233 -> <<-4, 0, 0>>
      [] a = 270 -> <<-5, 0, 0>>
      [] a = 360 -> <<0, -4, 0>>
      [] a = 450 -> <<5, 0, 0>>

\* math.cos(math.radians(a)) in fifths (cos(radians(90)) = 6.123e-17,
\* cos(radians(270)) = -1.8370e-16, cos(radians(450)) = 3.0616e-16)
cos_deg(a) ==
    CASE a = -90 -> <<0, 1, 0>>
      [] a = -37 -> <<4, 0, 0>>
      [] a = 0   -> <<5, 0, 0>>
      [] a = 37  -> <<4, 0, 0>>
      [] a = 53  -> <<3, 0, 0>>
      [] a = 90  -> <<0, 1, 0>>
      [] a = 143 -> <<-4, 0, 0>>
      [] a = 180 -> <<-5, 0, 0>>
      [] a = 233 -> <<-3, 0, 0>>
      [] a = 270 -> <<0, -3, 0>>
      [] a = 360 -> <<5, 0, 0>>
      [] a = 450 -> <<0, 5, 0>>

\* 1.0 as a sine or cosine
TrigOne == <<5, 0, 0>>

\* sun_direction_from_angles with the north component negated (the azimuth
\* measured from south)
sun_direction_from_angles_from_south(azimuth_deg, elevation_deg) ==
    LET cos_el == cos_deg(elevation_deg)
        sin_el == sin_deg(elevation_deg)
        x == DMul(cos_el, sin_deg(azimuth_deg))
        y == DScale(-1, DMul(cos_el, cos_deg(azimuth_deg)))
        z == DMul(sin_el, TrigOne)
    IN  <<x, y, z>>

\* sun_direction_from_angles with the elevation taken as the zenith angle
\* (sine and cosine of the elevation exchanged)
sun_direction_from_angles_zenith_angle(azimuth_deg, elevation_deg) ==
    LET cos_el == sin_deg(elevation_deg)
        sin_el == cos_deg(elevation_deg)
        x == DMul(cos_el, sin_deg(azimuth_deg))
        y == DMul(cos_el, cos_deg(azimuth_deg))
        z == DMul(sin_el, TrigOne)
    IN  <<x, y, z>>

\* sun_direction_from_angles without the factor cos(el) on the horizontal
\* components
sun_direction_from_angles_unscaled(azimuth_deg, elevation_deg) ==
    LET sin_el == sin_deg(elevation_deg)
        x == DMul(TrigOne, sin_deg(azimuth_deg))
        y == DMul(TrigOne, cos_deg(azimuth_deg))
        z == DMul(sin_el, TrigOne)
    IN  <<x, y, z>>

\* geometry.py sun_direction_from_angles: [east, north, up] in 25ths
sun_direction_from_angles(azimuth_deg, elevation_deg) ==
    LET az_rad == azimuth_deg
        el_rad == elevation_deg
        cos_el == cos_deg(el_rad)
        sin_el == sin_deg(el_rad)
        x == DMul(cos_el, sin_deg(az_rad))
        y == DMul(cos_el, cos_deg(az_rad))
        z == DMul(sin_el, TrigOne)
    IN  <<x, y, z>>

\* An angle of 1e308 degrees, a finite double near the largest one, and the
\* infinity that the sum of two such doubles overflows to
HugeAngle == 1000000

InfAngle == 2 * HugeAngle

\* a - b in doubles: an angle of the model is absorbed by 1e308,
\* 1e308 - (-1e308) overflows, and an infinite operand stays infinite
float_sub(a, b) ==
    LET big(x) == IF x >= HugeAngle THEN 1 ELSE IF x <= -HugeAngle THEN -1 ELSE 0
        s == big(a) - big(b)
    IN  IF Abs(a) >= InfAngle THEN a
        ELSE IF Abs(b) >= InfAngle THEN -b
        ELSE IF big(a) = 0 /\ big(b) = 0 THEN a - b
        ELSE IF s = 0 THEN 0
        ELSE IF Abs(s) = 2 THEN Sgn(s) * InfAngle ELSE Sgn(s) * HugeAngle

\* math.sin and math.cos raise ValueError (math domain error) for an
\* infinite argument; math.radians of inf is inf
math_domain_error(angle_deg) == Abs(angle_deg) >= InfAngle

\* geometry.py sun_direction_simplified, lines 207-210
simplified_azimuth(azimuth_deg, wall1_azimuth) ==
    LET rotation == float_sub(wall1_azimuth, 180)
    IN  float_sub(azimuth_deg, rotation)

\* geometry.py sun_direction_simplified
sun_direction_simplified(azimuth_deg, elevation_deg, wall1_azimuth) ==
    sun_direction_from_angles(
        simplified_azimuth(azimuth_deg, wall1_azimuth), elevation_deg)

\* models.py Window.normal: [sin(az), cos(az), 0.0] in fifths
normal(w) ==
    <<sin_deg(w.wall_normal_azimuth), cos_deg(w.wall_normal_azimuth), DZero>>

\* sign of np.dot(a, b) for a direction a (25ths) and a normal b (fifths).
\* The products sort into orders of magnitude (exact*exact, the terms with
\* one residue, with two, with three); the sign of the sum is the sign of
\* its first non-zero order.
dot_sign(a, b) ==
    LET o0 == a[1][1] * b[1][1] + a[2][1] * b[2][1] + a[3][1] * b[3][1]
        o1 == a[1][1] * b[1][2] + a[1][2] * b[1][1]
            + a[2][1] * b[2][2] + a[2][2] * b[2][1]
            + a[3][1] * b[3][2] + a[3][2] * b[3][1]
        o2 == a[1][2] * b[1][2] + a[1][3] * b[1][1]
            + a[2][2] * b[2][2] + a[2][3] * b[2][1]
            + a[3][2] * b[3][2] + a[3][3] * b[3][1]
        o3 == a[1][3] * b[1][2] + a[2][3] * b[2][2] + a[3][3] * b[3][2]
    IN  IF o0 # 0 THEN Sgn(o0)
        ELSE IF o1 # 0 THEN Sgn(o1)
        ELSE IF o2 # 0 THEN Sgn(o2) ELSE Sgn(o3)

-----------------------------------------------------------------------------
(* ray_casting.py *)

\* RayIntersection(intersects=False): point, t, local_h, local_v stay None
NoIntersection ==
    [intersects |-> FALSE, point |-> NoValue, t |-> NoValue,
     local_h |-> NoValue, local_v |-> NoValue]

\* the parallel test as a comparison with exactly 0.0
ray_parallel_exact_zero(d) == d = DZero

\* the parallel check left out
ray_parallel_never(d) == FALSE

\* line 83: abs(ray_direction[plane_axis]) < epsilon
ray_parallel(d) == BelowEpsilon(d)

\* the test of t left out
t_negative_never(delta, d) == FALSE

\* line 90: t < 0, for t = delta / d
t_negative(delta, d) == Sgn(delta) * DSgn(d) < 0

\* the bounds test without its tolerance
within_bounds_no_epsilon(num, extent, d) ==
    DLeq(DScale(2, DAbs(num)), DScale(extent, DAbs(d)))

\* lines 107-108: abs(local) <= extent / 2 + epsilon, for local = num / d
\* (both sides times 2 * abs(d))
within_bounds(num, extent, d) ==
    DLeq(DScale(2, DAbs(num)), DScale(extent + 2 * Epsilon, DAbs(d)))

\* _intersect_axis_aligned_plane with the branch of wall 2 forgotten:
\* local_h is always the x offset
intersect_axis_aligned_plane_h_is_x(origin, direction, plane_axis, plane_coord, w) ==
    LET d == direction[plane_axis + 1]
        delta == plane_coord - origin[plane_axis + 1]
        intersection ==
            [k \in 1..3 |-> DAdd(DScale(origin[k], d), DScale(delta, direction[k]))]
        local_h == DSub(intersection[1], DScale(w.center[1], d))
        local_v == DSub(intersection[3], DScale(w.center[3], d))
        within_h == within_bounds(local_h, w.width, d)
        within_v == within_bounds(local_v, w.height, d)
    IN  IF ray_parallel(d) THEN NoIntersection
        ELSE IF t_negative(delta, d) THEN NoIntersection
        ELSE [intersects |-> within_h /\ within_v,
              point |-> intersection, t |-> <<delta, d>>,
              local_h |-> local_h, local_v |-> local_v]

\* A quotient n/d is the pair <<n, d>>, d the direction component across
\* the plane; the point and the local offsets carry only their numerators
\* over that same d, which is the second element of t.
\*
\* ray_casting.py _intersect_axis_aligned_plane (plane_axis 0 = x, 1 = y)
intersect_axis_aligned_plane(origin, direction, plane_axis, plane_coord, w) ==
    LET d == direction[plane_axis + 1]
        \* t = delta / d
        delta == plane_coord - origin[plane_axis + 1]
        \* intersection = ray_origin + t * ray_direction, times d
        intersection ==
            [k \in 1..3 |-> DAdd(DScale(origin[k], d), DScale(delta, direction[k]))]
        h == IF plane_axis = 1 THEN 1 ELSE 2
        local_h == DSub(intersection[h], DScale(w.center[h], d))
        local_v == DSub(intersection[3], DScale(w.center[3], d))
        within_h == within_bounds(local_h, w.width, d)
        within_v == within_bounds(local_v, w.height, d)
    IN  IF ray_parallel(d) THEN NoIntersection
        ELSE IF t_negative(delta, d) THEN NoIntersection
        ELSE [intersects |-> within_h /\ within_v,
              point |-> intersection, t |-> <<delta, d>>,
              local_h |-> local_h, local_v |-> local_v]

\* the sun-side check as a strict comparison
wrong_side_strict(sun_side_check) == sun_side_check < 0

\* line 163: sun_side_check <= 0, the sun is not outside this wall
wrong_side(sun_side_check) == sun_side_check <= 0

\* the tunnel judged by its inner face alone
tunnel_clear_inner_only(inner_result, outer_result) == inner_result.intersects

\* line 207: both faces of the tunnel are crossed within the opening
tunnel_clear(inner_result, outer_result) ==
    inner_result.intersects /\ outer_result.intersects

\* the plane the opening lies in: its axis tag, or the comparison of the
\* centre coordinates (ray_window_intersection, lines 167-174)
plane_axis_of(w) ==
    IF w.axis = "x" THEN 1
    ELSE IF w.axis = "y" THEN 0
    ELSE IF Abs(w.center[2]) < Abs(w.center[1]) THEN 1 ELSE 0

\* ray_window_intersection returning the crossing of the outer face of the
\* tunnel, where the light enters the wall
ray_window_intersection_outer_face(origin, direction, w) ==
    LET sun_side_check == dot_sign(direction, normal(w))
        plane_axis == plane_axis_of(w)
        inner_plane_coord == w.center[plane_axis + 1]
        outer_plane_coord == inner_plane_coord - w.wall_thickness
        inner_result == intersect_axis_aligned_plane(
                            origin, direction, plane_axis, inner_plane_coord, w)
        outer_result == intersect_axis_aligned_plane(
                            origin, direction, plane_axis, outer_plane_coord, w)
    IN  IF wrong_side(sun_side_check) THEN NoIntersection
        ELSE IF w.wall_thickness <= 0 THEN inner_result
        ELSE IF tunnel_clear(inner_result, outer_result)
             THEN outer_result
             ELSE NoIntersection

\* ray_casting.py ray_window_intersection
ray_window_intersection(origin, direction, w) ==
    LET sun_side_check == dot_sign(direction, normal(w))
        plane_axis == plane_axis_of(w)
        inner_plane_coord == w.center[plane_axis + 1]
        outer_plane_coord == inner_plane_coord - w.wall_thickness
        inner_result == intersect_axis_aligned_plane(
                            origin, direction, plane_axis, inner_plane_coord, w)
        outer_result == intersect_axis_aligned_plane(
                            origin, direction, plane_axis, outer_plane_coord, w)
    IN  IF wrong_side(sun_side_check) THEN NoIntersection
        ELSE IF w.wall_thickness <= 0 THEN inner_result
        ELSE IF tunnel_clear(inner_result, outer_result)
             THEN inner_result
             ELSE NoIntersection

\* the divisors of the divisions a call executes: line 87 divides by the
\* direction component across the plane, once per plane test that gets past
\* the parallel check, and no plane test runs when the sun-side check fails
ray_divisors(origin, direction, w) ==
    LET d == direction[plane_axis_of(w) + 1]
    IN  IF wrong_side(dot_sign(direction, normal(w))) THEN {}
        ELSE IF ray_parallel(d) THEN {}
        ELSE {d}

\* ray_casting.py ray_intersects_window
ray_intersects_window(origin, direction, w) ==
    ray_window_intersection(origin, direction, w).intersects

-----------------------------------------------------------------------------
(* hit_test.py *)

\* math.cos(2 * pi * i / n) and math.sin(2 * pi * i / n) for the divisions of
\* the circle the model uses (n = 1, 2, 4).  The residue the doubles leave
\* on a zero (at most 2e-16 of the radius) is far below one length unit and
\* is dropped.
cos_turn(i, n) ==
    IF 4 * i = 0 THEN 1
    ELSE IF 4 * i = n THEN 0
    ELSE IF 4 * i = 2 * n THEN -1
    ELSE 0

sin_turn(i, n) ==
    IF 4 * i = 0 THEN 0
    ELSE IF 4 * i = n THEN 1
    ELSE IF 4 * i = 2 * n THEN 0
    ELSE -1

\* the height is divided among the levels for more than one level
\* (off by one: for at least one level)
height_divides_from_one(n_vert) == n_vert > 0

\* line 45: if n_vertical > 1
height_divides(n_vert) == n_vert > 1

\* the divisors of the divisions the loops execute: n_angular once per
\* angle index (line 40), n_vertical - 1 once per point of the grid when the
\* height is divided (line 46); the halving of line 48 divides by 2
sample_divisors(n_ang, n_vert) ==
    {n_ang : i \in 0..(n_ang - 1)}
    \cup {n_vert - 1 : k \in {q \in (0..(n_ang - 1)) \X (0..(n_vert - 1)) :
                                   height_divides(n_vert)}}

\* the point of angle index i and height index j (hit_test.py lines 40-49);
\* the plants of the model keep both divisions exact
surface_point(p, i, j, n_ang, n_vert) ==
    LET x == p.center_x + p.radius * cos_turn(i, n_ang)
        y == p.center_y + p.radius * sin_turn(i, n_ang)
        z == IF height_divides(n_vert)
             THEN p.z_min + ((p.z_max - p.z_min) * j) \div (n_vert - 1)
             ELSE (p.z_min + p.z_max) \div 2
    IN  <<x, y, z>>

\* generate_plant_sample_points with the two loops exchanged: the grid is
\* emitted vertical-major
generate_plant_sample_points_vertical_major(p, n_ang, n_vert) ==
    [k \in 1..(n_ang * n_vert) |->
        surface_point(p, (k - 1) % n_ang, (k - 1) \div n_ang, n_ang, n_vert)]
    \o << <<p.center_x, p.center_y, p.z_max>>,
          <<p.center_x, p.center_y, (p.z_min + p.z_max) \div 2>> >>

\* hit_test.py generate_plant_sample_points
generate_plant_sample_points(p, n_ang, n_vert) ==
    [k \in 1..(n_ang * n_vert) |->
        surface_point(p, (k - 1) \div n_vert, (k - 1) % n_vert, n_ang, n_vert)]
    \o << <<p.center_x, p.center_y, p.z_max>>,
          <<p.center_x, p.center_y, (p.z_min + p.z_max) \div 2>> >>

\* models.py HitResult, with the defaults of its optional fields
HitResult(is_hit, window_id, points, sun_direction, reason) ==
    [is_hit |-> is_hit, window_id |-> window_id, hit_points |-> points,
     sun_direction |-> sun_direction, reason |-> reason]

\* the horizon gate as a strict comparison
below_horizon_strict(elevation_deg) == elevation_deg < 0

\* hit_test.py line 97: sun below horizon = no direct sunlight possible
below_horizon(elevation_deg) == elevation_deg <= 0

\* the credited opening overwritten by every later hit
credit_latest(credited, id) == id

\* lines 114-115: the first credited opening is kept
credit(credited, id) == IF credited = None THEN id ELSE credited

\* one entry of point_info["windows"] (lines 205-217)
window_info(point, direction, w) ==
    LET r == ray_window_intersection(point, direction, w)
    IN  IF r.point # NoValue
        THEN [window_id |-> w.id, intersects |-> r.intersects,
              intersection_point |-> r.point, t |-> r.t,
              local_h |-> r.local_h, local_v |-> r.local_v]
        ELSE [window_id |-> w.id, intersects |-> r.intersects]

\* the (point, opening) pairs that intersect, as indices
detail_hits(details) ==
    {q \in (DOMAIN details) \X (UNION {DOMAIN details[i].windows : i \in DOMAIN details}) :
        /\ q[2] \in DOMAIN details[q[1]].windows
        /\ details[q[1]].windows[q[2]].intersects}

\* lines 219-222: the opening of the first intersecting pair, the points
\* outside, the openings inside
first_hit_window(details) ==
    LET hits == detail_hits(details)
    IN  IF hits = {} THEN None
        ELSE LET q == CHOOSE h \in hits :
                          \A g \in hits :
                              h[1] < g[1] \/ (h[1] = g[1] /\ h[2] <= g[2])
             IN  details[q[1]].windows[q[2]].window_id

\* hit_test.py get_detailed_hit_info
get_detailed_hit_info(azimuth_deg, elevation_deg, p, ws, n_ang, n_vert) ==
    IF elevation_deg <= 0
    THEN [is_hit |-> FALSE, reason |-> "sun_below_horizon",
          sun_azimuth_deg |-> azimuth_deg,
          sun_elevation_deg |-> elevation_deg, points |-> <<>>]
    ELSE LET direction == sun_direction_from_angles(azimuth_deg, elevation_deg)
             points == generate_plant_sample_points(p, n_ang, n_vert)
             point_details ==
                 [i \in DOMAIN points |->
                     [index |-> i - 1, position |-> points[i],
                      windows |-> [j \in DOMAIN ws |->
                                      window_info(points[i], direction, ws[j])]]]
         IN  [is_hit |-> detail_hits(point_details) # {},
              window_id |-> first_hit_window(point_details),
              sun_azimuth_deg |-> azimuth_deg,
              sun_elevation_deg |-> elevation_deg,
              sun_direction |-> direction,
              n_sample_points |-> Len(points),
              n_hit_points |->
                  Cardinality({q[1] : q \in detail_hits(point_details)}),
              points |-> point_details]

-----------------------------------------------------------------------------
(* Inputs of one ray test *)

\* largest wall thickness tried
MaxThickness == 2

\* coordinates of ray origins: inside, on the edge of, just within the
\* tolerance of and outside an opening centred at 0 with half extent 1 (or
\* 1.5); on, before and behind its planes
OriginCoords == {-3, -1, 0, 2, 3}

OriginHeights == {0, 2, 3}

\* a component across or along the wall: backward, exactly zero, a residue
\* below epsilon, forward
DirectionComponents == {<<-1, 0, 0>>, <<0, 0, 0>>, <<0, 1, 0>>, <<1, 0, 0>>}

DirectionRises == {<<0, 0, 0>>, <<1, 0, 0>>}

RayWindows ==
    [id : {"w"},
     center : {<<0, 0, 0>>, <<4, 0, 0>>},
     width : {2, 3},
     height : {2},
     wall_normal_azimuth : {0, 180, 270},
     wall_thickness : 0..MaxThickness,
     axis : {"x", "y", None}]

\* openings without extent or with a negative one
DegenerateWindows ==
    [id : {"w"},
     center : {<<0, 0, 0>>},
     width : {-2, 0},
     height : {0, 2},
     wall_normal_azimuth : {0, 180},
     wall_thickness : {0, 1},
     axis : {"x"}]

-----------------------------------------------------------------------------
(* Inputs of one hit test *)

\* longest list of openings
MaxWindows == 2

\* largest number of vertical divisions
MaxVertical == 2

SunAzimuths == {0, 180, 270}

\* below the horizon, on it, atan(3/4) above it, at the zenith
SunElevations == {-37, 0, 37, 90}

\* wall1_normal_azimuth: 180 leaves the azimuth as it is, 0 turns it by
\* half a turn, 217 (180 + atan(3/4)) turns it by less than a quarter, as
\* the default 210 does
ReferenceAzimuths == {0, 180, 217}

\* the sun azimuth with the reference azimuth: the angles above, and two
\* finite doubles whose difference is not finite
AnglePairs ==
    (SunAzimuths \X ReferenceAzimuths) \cup {<<HugeAngle, -HugeAngle>>}

AngularChoices == {0, 2, 4}

\* a cylinder of radius 3 that touches wall 1 (y = 0)
Plants ==
    {[center_x |-> 4, center_y |-> 3, radius |-> 3, z_min |-> 0, z_max |-> 6]}

\* a narrow tunnel through wall 1 in front of one side of the plant, a
\* narrow thin opening of wall 1 in front of its axis, and a wide opening
\* of wall 2 (x = 0) without axis tag
WindowCatalog ==
    {[id |-> "B", center |-> <<7, 0, 5>>, width |-> 2, height |-> 6,
      wall_normal_azimuth |-> 180, wall_thickness |-> 1, axis |-> "x"],
     [id |-> "D", center |-> <<4, 0, 5>>, width |-> 2, height |-> 6,
      wall_normal_azimuth |-> 180, wall_thickness |-> 0, axis |-> "x"],
     [id |-> "C", center |-> <<0, 3, 5>>, width |-> 8, height |-> 6,
      wall_normal_azimuth |-> 270, wall_thickness |-> 0, axis |-> None]}

WindowLists == UNION {[1..n -> WindowCatalog] : n \in 0..MaxWindows}

-----------------------------------------------------------------------------
(* geometry.py: angles_from_sun_direction *)

\* An angle returned by math.degrees(math.atan2(..)) is a pair <<deg, s>>:
\* deg degrees (0, a multiple of 90, or one of the labels of the 3-4-5
\* angles), displaced by s: s = 0 not at all, |s| = 1 by less than half an
\* ulp of 360.0 (2.84e-14 degrees, 8.1 residues of 6.123e-17 radians),
\* |s| = 2 by more than that and less than 1e-10, in the direction of the
\* sign of s.
AngleLess(a, b) == a[1] < b[1] \/ (a[1] = b[1] /\ a[2] < b[2])

\* the order of magnitude of a direction number: 1 exact, 2 one residue,
\* 3 two residues, 4 the number 0.0
level(d) == IF d[1] # 0 THEN 1 ELSE IF d[2] # 0 THEN 2 ELSE IF d[3] # 0 THEN 3 ELSE 4

lead(d) == IF level(d) = 4 THEN 0 ELSE d[level(d)]

RECURSIVE GCD(_, _)
GCD(a, b) == IF b = 0 THEN a ELSE GCD(b, a % b)

\* math.degrees(math.atan2(p, q)) for two numbers of one order of magnitude
ratio_angle(p, q) ==
    LET g == GCD(Abs(p), Abs(q))
        r == <<p \div g, q \div g>>
    IN  CASE r = <<0, 1>>   -> 0
          [] r = <<3, 4>>   -> 37
          [] r = <<1, 1>>   -> 45
          [] r = <<4, 3>>   -> 53
          [] r = <<1, 0>>   -> 90
          [] r = <<4, -3>>  -> 127
          [] r = <<1, -1>>  -> 135
          [] r = <<3, -4>>  -> 143
          [] r = <<0, -1>>  -> 180
          [] r = <<-3, 4>>  -> -37
          [] r = <<-1, 1>>  -> -45
          [] r = <<-4, 3>>  -> -53
          [] r = <<-1, 0>>  -> -90
          [] r = <<-4, -3>> -> -127
          [] r = <<-1, -1>> -> -135
          [] r = <<-3, -4>> -> -143

\* |x / y| is at most 8 residues, for x of a lower order than y: x = b*r/5
\* against y = a/25 is 5*b/a residues, and so one order further down
within_half_ulp_of_360(x, y) ==
    \/ level(x) - level(y) >= 2
    \/ 5 * Abs(lead(x)) <= 8 * Abs(lead(y))

\* math.degrees(math.atan2(x, y)) for direction numbers of one unit.
\* Where x is of a lower order than y the result is x / y radians next to
\* 0.0 and rounds to pi next to +-pi; where y is of a lower order it rounds
\* to +-pi/2; atan2(0.0, 0.0) = 0.0.
atan2_deg(x, y) ==
    IF level(x) = level(y)
    THEN IF level(x) = 4 THEN <<0, 0>> ELSE <<ratio_angle(lead(x), lead(y)), 0>>
    ELSE IF level(x) > level(y)
    THEN IF lead(y) > 0
         THEN <<0, Sgn(lead(x)) * (IF within_half_ulp_of_360(x, y) THEN 1 ELSE 2)>>
         ELSE <<IF lead(x) < 0 THEN -180 ELSE 180, 0>>
    ELSE <<90 * Sgn(lead(x)), 0>>

ISqrt(n) == CHOOSE k \in 0..50 : k * k <= n /\ n < (k + 1) * (k + 1)

\* math.sqrt(x * x + y * y): of the order of the larger of x and y
horizontal_distance(x, y) ==
    LET l == IF level(x) < level(y) THEN level(x) ELSE level(y)
        at(d) == IF l = 4 THEN 0 ELSE d[l]
        h == ISqrt(at(x) * at(x) + at(y) * at(y))
    IN  [k \in 1..3 |-> IF k = l THEN h ELSE 0]

\* azimuth_deg += 360.0 in doubles: a displacement of less than half an ulp
\* of 360.0 is rounded away
add_360(a) ==
    IF a[1] # 0 THEN <<a[1] + 360, 0>>
    ELSE IF Abs(a[2]) = 1 THEN <<360, 0>>
    ELSE <<360, Sgn(a[2])>>

\* geometry.py angles_from_sun_direction: (azimuth_deg, elevation_deg)
angles_from_sun_direction(direction) ==
    LET x == direction[1]
        y == direction[2]
        z == direction[3]
        elevation_deg == atan2_deg(z, horizontal_distance(x, y))
        azimuth_deg == atan2_deg(x, y)
    IN  <<IF AngleLess(azimuth_deg, <<0, 0>>) THEN add_360(azimuth_deg)
          ELSE azimuth_deg,
          elevation_deg>>

-----------------------------------------------------------------------------
(* geometry.py: normalize, angle_between_vectors, project_onto_plane *)

\* The vectors of these functions are triples of integers in units of
\* 2e-11: the limit 1e-10 of normalize is ZeroLength units, and a length is
\* compared by its square.
ZeroLength == 5

\* A component of 1e200, whose square is not a finite double
HugeComponent == 10000

VDot(a, b) == a[1] * b[1] + a[2] * b[2] + a[3] * b[3]

\* np.linalg.norm(v) is sqrt(v.dot(v)): inf when a square overflows
norm_overflows(v) == \E k \in 1..3 : Abs(v[k]) >= HugeComponent

\* length < 1e-10
zero_length(v) == ~norm_overflows(v) /\ VDot(v, v) < ZeroLength * ZeroLength

\* v / length as the vector num / sqrt(den2); a finite v divided by inf is
\* the zero vector
normalize(v) ==
    IF norm_overflows(v) THEN [num |-> <<0, 0, 0>>, den2 |-> 1]
    ELSE [num |-> v, den2 |-> VDot(v, v)]

\* geometry.py angle_between_vectors: the angle whose cosine is
\* cos_num / sqrt(cos_den2), in [0, 180] degrees
angle_between_vectors(a, b) ==
    LET a_norm == normalize(a)
        b_norm == normalize(b)
    IN  [cos_num |-> VDot(a_norm.num, b_norm.num),
         cos_den2 |-> a_norm.den2 * b_norm.den2]

\* geometry.py project_onto_plane: v - dot(v, n) * n as the vector num / den
project_onto_plane(v, plane_normal) ==
    LET n == normalize(plane_normal)
        d == VDot(v, n.num)
    IN  [num |-> [k \in 1..3 |-> n.den2 * v[k] - d * n.num[k]],
         den |-> n.den2]

-----------------------------------------------------------------------------
(* One call of ray_window_intersection *)

\* the variables of check_sun_hits_plant while no call is modelled
HitIdle ==
    /\ pc = "idle"
    /\ sun_azimuth_deg = 0 /\ sun_elevation_deg = 0
    /\ plant = NoValue /\ windows = <<>>
    /\ n_angular = 0 /\ n_vertical = 0 /\ wall1_normal_azimuth = 0
    /\ sun_dir = NoValue /\ sample_points = <<>>
    /\ point_index = 0 /\ window_index = 0
    /\ hit_points = <<>> /\ hit_window_id = None /\ result = NoValue
    /\ detail = NoValue /\ previous = NoValue

\* the variables of simulate_time_range while no call is modelled
SimIdle ==
    /\ sim_pc = "idle" /\ sun_data = <<>> /\ results = <<>>
    /\ result_index = 0 /\ intervals = <<>>
    /\ current_interval_start = None /\ current_interval_window = None
    /\ current_interval_count = 0 /\ simulation = NoValue

\* the variables of check_plant_sun.py while no run is modelled
CliIdle ==
    /\ cli_pc = "idle" /\ args = NoValue /\ cli_files = NoValue
    /\ azimuth = 0 /\ elevation = 0 /\ config_path = None
    /\ cli_error = None /\ stdout = <<>> /\ exit_status = 0

\* the variables of the service module while it is not modelled
CfgIdle ==
    /\ load_pc = "idle" /\ window_dict = NoValue /\ loaded_window = NoValue
    /\ entry_pc = "idle" /\ entry_fn = None /\ entry_config = NoValue
    /\ entry_args = NoValue /\ entry_result = NoValue

SvcIdle ==
    /\ cached_config = NoValue /\ cached_config_path = None
    /\ disk = NoValue /\ reads = NoValue
    /\ svc_pc = NoValue /\ svc_path = NoValue /\ svc_loaded = NoValue
    /\ svc_returned = NoValue /\ svc_calls = 0

\* the variables of the geometry call while no call is modelled
GeoIdle ==
    /\ geo_pc = "idle" /\ geo_fn = None
    /\ geo_args = NoValue /\ geo_result = NoValue /\ geo_source = NoValue

\* the variables of ray_window_intersection while no call is modelled
RayIdle ==
    /\ ray_pc = "idle"
    /\ ray_origin = NoValue /\ ray_direction = NoValue
    /\ window = NoValue /\ ray_result = NoValue

InitRay ==
    /\ ray_pc = "call"
    /\ ray_origin \in OriginCoords \X OriginCoords \X OriginHeights
    /\ ray_direction \in
           DirectionComponents \X DirectionComponents \X DirectionRises
    /\ window \in RayWindows \cup DegenerateWindows
    /\ ray_result = NoValue
    /\ HitIdle
    /\ GeoIdle
    /\ SimIdle
    /\ CliIdle /\ SvcIdle /\ CfgIdle

\* ray_window_intersection(ray_origin, ray_direction, window); a division
\* by a component that is exactly 0.0 ends the call as a ZeroDivisionError
Cast ==
    /\ ray_pc = "call"
    /\ IF DZero \in ray_divisors(ray_origin, ray_direction, window)
       THEN /\ ray_pc' = "ZeroDivisionError"
            /\ ray_result' = NoValue
       ELSE /\ ray_pc' = "done"
            /\ ray_result' =
                   ray_window_intersection(ray_origin, ray_direction, window)
    /\ UNCHANGED <<ray_origin, ray_direction, window>>
    /\ UNCHANGED <<hitVars, geoVars, simVars, cliVars, svcVars, cfgVars>>

NextRay == Cast

SpecRay == InitRay /\ [][NextRay]_vars

-----------------------------------------------------------------------------
(* One call of check_sun_hits_plant *)

Init ==
    /\ pc = "call"
    /\ \E q \in AnglePairs :
          sun_azimuth_deg = q[1] /\ wall1_normal_azimuth = q[2]
    /\ sun_elevation_deg \in SunElevations
    /\ plant \in Plants
    /\ windows \in WindowLists
    /\ n_angular \in AngularChoices
    /\ n_vertical \in 0..MaxVertical
    /\ sun_dir = NoValue /\ sample_points = <<>>
    /\ point_index = 0 /\ window_index = 0
    /\ hit_points = <<>> /\ hit_window_id = None /\ result = NoValue
    /\ detail = NoValue /\ previous = NoValue
    /\ RayIdle
    /\ GeoIdle
    /\ SimIdle
    /\ CliIdle /\ SvcIdle /\ CfgIdle

inputVars == <<sun_azimuth_deg, sun_elevation_deg, plant, windows, n_angular,
               n_vertical, wall1_normal_azimuth>>

\* lines 96-98: the horizon gate
HorizonGate ==
    /\ pc = "call"
    /\ below_horizon(sun_elevation_deg)
    /\ result' = HitResult(FALSE, None, <<>>, NoValue, "sun_below_horizon")
    /\ pc' = "done"
    /\ UNCHANGED <<inputVars, sun_dir, sample_points, point_index,
                   window_index, hit_points, hit_window_id>>
    /\ UNCHANGED <<cliVars, svcVars, cfgVars, simVars, geoVars, rayVars, detail, previous>>

\* check_sun_hits_plant with accumulators that outlive the call (a mutable
\* default argument, a module-level list): they are not emptied
PrepareKeepsAccumulators ==
    /\ pc = "call"
    /\ ~below_horizon(sun_elevation_deg)
    /\ IF math_domain_error(
              simplified_azimuth(sun_azimuth_deg, wall1_normal_azimuth))
       THEN /\ pc' = "ValueError"
            /\ UNCHANGED <<sun_dir, sample_points, point_index, window_index>>
       ELSE /\ sun_dir' = sun_direction_simplified(
                   sun_azimuth_deg, sun_elevation_deg, wall1_normal_azimuth)
            /\ sample_points' =
                   generate_plant_sample_points(plant, n_angular, n_vertical)
            /\ point_index' = 1
            /\ window_index' = 1
            /\ pc' = "scan"
    /\ UNCHANGED <<inputVars, result, hit_points, hit_window_id>>
    /\ UNCHANGED <<cliVars, svcVars, cfgVars, simVars, geoVars, rayVars, detail, previous>>

\* lines 100-107: direction, sample points, empty accumulators; a sine of
\* an infinite angle leaves the call with a ValueError, a division by zero
\* while sampling with a ZeroDivisionError
Prepare ==
    /\ pc = "call"
    /\ ~below_horizon(sun_elevation_deg)
    /\ IF math_domain_error(
              simplified_azimuth(sun_azimuth_deg, wall1_normal_azimuth))
       THEN /\ pc' = "ValueError"
            /\ UNCHANGED <<sun_dir, sample_points, hit_points, hit_window_id,
                           point_index, window_index>>
       ELSE IF 0 \in sample_divisors(n_angular, n_vertical)
       THEN /\ pc' = "ZeroDivisionError"
            /\ sun_dir' = sun_direction_simplified(
                   sun_azimuth_deg, sun_elevation_deg, wall1_normal_azimuth)
            /\ UNCHANGED <<sample_points, hit_points, hit_window_id,
                           point_index, window_index>>
       ELSE /\ sun_dir' = sun_direction_simplified(
                   sun_azimuth_deg, sun_elevation_deg, wall1_normal_azimuth)
            /\ sample_points' =
                   generate_plant_sample_points(plant, n_angular, n_vertical)
            /\ hit_points' = <<>>
            /\ hit_window_id' = None
            /\ point_index' = 1
            /\ window_index' = 1
            /\ pc' = "scan"
    /\ UNCHANGED <<inputVars, result>>
    /\ UNCHANGED <<cliVars, svcVars, cfgVars, simVars, geoVars, rayVars, detail, previous>>

\* the inner loop without its break: a point is tested against every opening
\* and recorded once for each opening that lets its ray through
TestWindowNoBreak ==
    /\ pc = "scan"
    /\ point_index <= Len(sample_points)
    /\ window_index <= Len(windows)
    /\ IF ray_intersects_window(
              sample_points[point_index], sun_dir, windows[window_index])
       THEN /\ hit_points' = Append(hit_points, sample_points[point_index])
            /\ hit_window_id' = credit(hit_window_id, windows[window_index].id)
       ELSE UNCHANGED <<hit_points, hit_window_id>>
    /\ window_index' = window_index + 1
    /\ UNCHANGED <<inputVars, pc, sun_dir, sample_points, result, point_index>>
    /\ UNCHANGED <<cliVars, svcVars, cfgVars, simVars, geoVars, rayVars, detail, previous>>

\* the inner loop with its break outside the if: only the first opening of
\* the list is tested for each point
TestWindowBreakAlways ==
    /\ pc = "scan"
    /\ point_index <= Len(sample_points)
    /\ window_index <= Len(windows)
    /\ IF ray_intersects_window(
              sample_points[point_index], sun_dir, windows[window_index])
       THEN /\ hit_points' = Append(hit_points, sample_points[point_index])
            /\ hit_window_id' = credit(hit_window_id, windows[window_index].id)
       ELSE UNCHANGED <<hit_points, hit_window_id>>
    /\ point_index' = point_index + 1
    /\ window_index' = 1
    /\ UNCHANGED <<inputVars, pc, sun_dir, sample_points, result>>
    /\ UNCHANGED <<cliVars, svcVars, cfgVars, simVars, geoVars, rayVars, detail, previous>>

\* lines 111-116: one pass of the inner loop, with its break
TestWindow ==
    /\ pc = "scan"
    /\ point_index <= Len(sample_points)
    /\ window_index <= Len(windows)
    /\ IF ray_intersects_window(
              sample_points[point_index], sun_dir, windows[window_index])
       THEN /\ hit_points' = Append(hit_points, sample_points[point_index])
            /\ hit_window_id' = credit(hit_window_id, windows[window_index].id)
            /\ point_index' = point_index + 1
            /\ window_index' = 1
       ELSE /\ window_index' = window_index + 1
            /\ UNCHANGED <<hit_points, hit_window_id, point_index>>
    /\ UNCHANGED <<inputVars, pc, sun_dir, sample_points, result>>
    /\ UNCHANGED <<cliVars, svcVars, cfgVars, simVars, geoVars, rayVars, detail, previous>>

\* line 110: the inner loop ran out of openings, on to the next point
NextPoint ==
    /\ pc = "scan"
    /\ point_index <= Len(sample_points)
    /\ window_index > Len(windows)
    /\ point_index' = point_index + 1
    /\ window_index' = 1
    /\ UNCHANGED <<inputVars, pc, sun_dir, sample_points, hit_points,
                   hit_window_id, result>>
    /\ UNCHANGED <<cliVars, svcVars, cfgVars, simVars, geoVars, rayVars, detail, previous>>

\* the result of a scan that found nothing, without its reason
ReturnWithoutReason ==
    /\ pc = "scan"
    /\ point_index > Len(sample_points)
    /\ result' = IF hit_points # <<>>
                 THEN HitResult(TRUE, hit_window_id, hit_points, sun_dir, None)
                 ELSE HitResult(FALSE, None, <<>>, sun_dir, None)
    /\ pc' = "done"
    /\ UNCHANGED <<inputVars, sun_dir, sample_points, point_index,
                   window_index, hit_points, hit_window_id>>
    /\ UNCHANGED <<cliVars, svcVars, cfgVars, simVars, geoVars, rayVars, detail, previous>>

\* lines 118-130: the result
Return ==
    /\ pc = "scan"
    /\ point_index > Len(sample_points)
    /\ result' = IF hit_points # <<>>
                 THEN HitResult(TRUE, hit_window_id, hit_points, sun_dir, None)
                 ELSE HitResult(FALSE, None, <<>>, sun_dir, "no_window_path")
    /\ pc' = "done"
    /\ UNCHANGED <<inputVars, sun_dir, sample_points, point_index,
                   window_index, hit_points, hit_window_id>>
    /\ UNCHANGED <<cliVars, svcVars, cfgVars, simVars, geoVars, rayVars, detail, previous>>

\* get_detailed_hit_info called with the arguments of the finished call (it
\* takes no wall1_normal_azimuth)
DetailedHitInfo ==
    /\ pc = "done"
    /\ detail = NoValue
    /\ detail' = get_detailed_hit_info(sun_azimuth_deg, sun_elevation_deg,
                                        plant, windows, n_angular, n_vertical)
    /\ UNCHANGED <<inputVars, pc, sun_dir, sample_points, point_index,
                   window_index, hit_points, hit_window_id, result>>
    /\ UNCHANGED <<cliVars, svcVars, cfgVars, simVars, geoVars, rayVars, previous>>

\* the caller keeps the result and calls check_sun_hits_plant again with the
\* same arguments; the locals of the new call hold whatever the memory holds
\* until the call assigns them
CallAgain ==
    /\ pc = "done"
    /\ previous = NoValue
    /\ previous' = result
    /\ result' = NoValue
    /\ pc' = "call"
    /\ UNCHANGED <<inputVars, sun_dir, sample_points, point_index,
                   window_index, hit_points, hit_window_id>>
    /\ UNCHANGED <<cliVars, svcVars, cfgVars, simVars, geoVars, rayVars, detail>>

Next ==
    HorizonGate \/ Prepare \/ TestWindow \/ NextPoint \/ Return
        \/ DetailedHitInfo \/ CallAgain

Spec == Init /\ [][Next]_vars

-----------------------------------------------------------------------------
(* One call of a function of geometry.py *)

\* azimuths and elevations of the direct calls of sun_direction_from_angles
GeoAzimuths == {0, 37, 53, 90, 143, 180, 233, 270, 360}

GeoElevations == {-90, -37, 0, 37, 53, 90}

\* directions handed to angles_from_sun_direction that no pair of angles
\* of the model produces: north with an east component of -6e-17 and of
\* -3e-15, north-west, and the zero vector
GeoDirections ==
    { <<(<<0, -5, 0>>), (<<25, 0, 0>>), DZero>>,
      <<(<<0, -250, 0>>), (<<25, 0, 0>>), DZero>>,
      <<(<<-25, 0, 0>>), (<<25, 0, 0>>), DZero>>,
      <<DZero, DZero, DZero>> }

\* components of the vectors handed to normalize, angle_between_vectors and
\* project_onto_plane, in units of 2e-11
GeoComponents == {-4, 0, 3, 4, HugeComponent}

GeoVectors == GeoComponents \X GeoComponents \X GeoComponents

GeoCalls ==
    ({"sun_direction_from_angles"} \X (GeoAzimuths \X GeoElevations))
        \cup ({"angles_from_sun_direction"} \X {<<d>> : d \in GeoDirections})
        \cup ({"normalize"} \X {<<v>> : v \in GeoVectors})
        \cup ({"angle_between_vectors", "project_onto_plane"}
                  \X (GeoVectors \X GeoVectors))

InitGeo ==
    /\ geo_pc = "call"
    /\ \E c \in GeoCalls : geo_fn = c[1] /\ geo_args = c[2]
    /\ geo_result = NoValue
    /\ geo_source = NoValue
    /\ HitIdle
    /\ RayIdle
    /\ SimIdle
    /\ CliIdle /\ SvcIdle /\ CfgIdle

\* sun_direction_from_angles(azimuth_deg, elevation_deg)
SunDirectionFromAngles ==
    /\ geo_pc = "call" /\ geo_fn = "sun_direction_from_angles"
    /\ geo_result' = sun_direction_from_angles(geo_args[1], geo_args[2])
    /\ geo_pc' = "done"
    /\ UNCHANGED <<geo_fn, geo_args, geo_source>>
    /\ UNCHANGED <<rayVars, hitVars, simVars, cliVars, svcVars, cfgVars>>

\* the direction just returned is handed to angles_from_sun_direction
AnglesOfReturnedDirection ==
    /\ geo_pc = "done" /\ geo_fn = "sun_direction_from_angles"
    /\ geo_fn' = "angles_from_sun_direction"
    /\ geo_args' = <<geo_result>>
    /\ geo_source' = geo_args
    /\ geo_result' = NoValue
    /\ geo_pc' = "call"
    /\ UNCHANGED <<rayVars, hitVars, simVars, cliVars, svcVars, cfgVars>>

\* angles_from_sun_direction(direction)
AnglesFromSunDirection ==
    /\ geo_pc = "call" /\ geo_fn = "angles_from_sun_direction"
    /\ geo_result' = angles_from_sun_direction(geo_args[1])
    /\ geo_pc' = "done"
    /\ UNCHANGED <<geo_fn, geo_args, geo_source>>
    /\ UNCHANGED <<rayVars, hitVars, simVars, cliVars, svcVars, cfgVars>>

\* normalize(v)
Normalize ==
    /\ geo_pc = "call" /\ geo_fn = "normalize"
    /\ IF zero_length(geo_args[1])
       THEN geo_pc' = "ValueError" /\ geo_result' = NoValue
       ELSE geo_pc' = "done" /\ geo_result' = normalize(geo_args[1])
    /\ UNCHANGED <<geo_fn, geo_args, geo_source>>
    /\ UNCHANGED <<rayVars, hitVars, simVars, cliVars, svcVars, cfgVars>>

\* angle_between_vectors(a, b): normalize(a), then normalize(b)
AngleBetweenVectors ==
    /\ geo_pc = "call" /\ geo_fn = "angle_between_vectors"
    /\ IF zero_length(geo_args[1]) \/ zero_length(geo_args[2])
       THEN geo_pc' = "ValueError" /\ geo_result' = NoValue
       ELSE /\ geo_pc' = "done"
            /\ geo_result' = angle_between_vectors(geo_args[1], geo_args[2])
    /\ UNCHANGED <<geo_fn, geo_args, geo_source>>
    /\ UNCHANGED <<rayVars, hitVars, simVars, cliVars, svcVars, cfgVars>>

\* project_onto_plane(v, plane_normal): normalize(plane_normal)
ProjectOntoPlane ==
    /\ geo_pc = "call" /\ geo_fn = "project_onto_plane"
    /\ IF zero_length(geo_args[2])
       THEN geo_pc' = "ValueError" /\ geo_result' = NoValue
       ELSE /\ geo_pc' = "done"
            /\ geo_result' = project_onto_plane(geo_args[1], geo_args[2])
    /\ UNCHANGED <<geo_fn, geo_args, geo_source>>
    /\ UNCHANGED <<rayVars, hitVars, simVars, cliVars, svcVars, cfgVars>>

NextGeo ==
    SunDirectionFromAngles \/ AnglesOfReturnedDirection
        \/ AnglesFromSunDirection \/ Normalize \/ AngleBetweenVectors
        \/ ProjectOntoPlane

SpecGeo == InitGeo /\ [][NextGeo]_vars

-----------------------------------------------------------------------------
(* simulator/time_range.py: simulate_time_range, consolidate_to_intervals *)

\* hit_test.py check_sun_hits_plant as the value it returns
check_sun_hits_plant(azimuth_deg, elevation_deg, p, ws, n_ang, n_vert, wall1_azimuth) ==
    IF below_horizon(elevation_deg)
    THEN HitResult(FALSE, None, <<>>, NoValue, "sun_below_horizon")
    ELSE LET direction ==
                 sun_direction_simplified(azimuth_deg, elevation_deg, wall1_azimuth)
             points == generate_plant_sample_points(p, n_ang, n_vert)
             through(i) ==
                 {j \in DOMAIN ws : ray_intersects_window(points[i], direction, ws[j])}
             lit == {i \in DOMAIN points : through(i) # {}}
             first == CHOOSE i \in lit : \A k \in lit : i <= k
             opening == CHOOSE j \in through(first) : \A k \in through(first) : j <= k
             is_lit(point) ==
                 \E j \in DOMAIN ws : ray_intersects_window(point, direction, ws[j])
         IN  IF lit = {}
             THEN HitResult(FALSE, None, <<>>, direction, "no_window_path")
             ELSE HitResult(TRUE, ws[opening].id, SelectSeq(points, is_lit),
                            direction, None)

\* The default wall1_normal_azimuth of check_sun_hits_plant (210.0), as the
\* angle of the model for a frame rotated by less than 90 degrees
DefaultWall1NormalAzimuth == 217

\* the Config of the simulation: the plant, the thin opening of wall 1, and
\* 4 x 2 sample points
SimConfig ==
    [plant |-> CHOOSE p \in Plants : TRUE,
     windows |-> <<CHOOSE w \in WindowCatalog : w.id = "D">>,
     sample_points_angular |-> 4, sample_points_vertical |-> 2]

\* sun positions as (azimuth_deg, elevation_deg): in front of the opening,
\* behind the wall, below the horizon
SunPositions == {<<217, 37>>, <<37, 37>>, <<217, -37>>}

Timestamps == {"t1", "t2", "t3"}

MaxPoints == 3

SunDataPoints ==
    {[timestamp |-> t, azimuth_deg |-> q[1], elevation_deg |-> q[2]] :
        t \in Timestamps, q \in SunPositions}

SunData == UNION {[1..n -> SunDataPoints] : n \in 0..MaxPoints}

\* a == b for two TimestampResult objects that are not the same object: the
\* dataclass compares (timestamp, hit_result) and HitResult (is_hit,
\* window_id, hit_points, sun_direction, reason) as tuples, left to right.
\* Two lists compare their arrays, an array (or None and an array) compares
\* to an array whose truth value raises ValueError.
dataclass_eq(a, b) ==
    LET g == a.hit_result
        h == b.hit_result
    IN  IF a.timestamp # b.timestamp THEN "False"
        ELSE IF g.is_hit # h.is_hit THEN "False"
        ELSE IF g.window_id # h.window_id THEN "False"
        ELSE IF Len(g.hit_points) # Len(h.hit_points) THEN "False"
        ELSE IF g.hit_points # <<>> THEN "ValueError"
        ELSE IF g.sun_direction # NoValue \/ h.sun_direction # NoValue
        THEN "ValueError"
        ELSE IF g.reason # h.reason THEN "False"
        ELSE "True"

\* results.index(results[i]) as a position 1..i, or 0 for a ValueError;
\* the object itself is found by identity
RECURSIVE list_index_from(_, _, _)
list_index_from(rs, i, k) ==
    IF k = i THEN i
    ELSE LET e == dataclass_eq(rs[k], rs[i])
         IN  IF e = "True" THEN k
             ELSE IF e = "ValueError" THEN 0
             ELSE list_index_from(rs, i, k + 1)

list_index(rs, i) == list_index_from(rs, i, 1)

\* results[results.index(result) - 1] for the position k of the index: the
\* Python index -1 is the last element
element_before(rs, k) == IF k = 1 THEN rs[Len(rs)] ELSE rs[k - 1]

HitInterval(start, end, window_id, n) ==
    [start_timestamp |-> start, end_timestamp |-> end,
     window_id |-> window_id, n_timestamps |-> n]

\* line 229: sum(1 for r in results if r.hit_result.is_hit)
count_hits(rs) == Cardinality({k \in DOMAIN rs : rs[k].hit_result.is_hit})

InitSim ==
    /\ sim_pc = "simulate"
    /\ sun_data \in SunData
    /\ results = <<>>
    /\ result_index = 0 /\ intervals = <<>>
    /\ current_interval_start = None /\ current_interval_window = None
    /\ current_interval_count = 0 /\ simulation = NoValue
    /\ HitIdle /\ RayIdle /\ GeoIdle
    /\ CliIdle /\ SvcIdle /\ CfgIdle

\* simulate_time_range, lines 215-224: one sun data point
CheckPoint ==
    /\ sim_pc = "simulate"
    /\ Len(results) < Len(sun_data)
    /\ LET point == sun_data[Len(results) + 1]
           hit == check_sun_hits_plant(
                      point.azimuth_deg, point.elevation_deg, SimConfig.plant,
                      SimConfig.windows, SimConfig.sample_points_angular,
                      SimConfig.sample_points_vertical,
                      DefaultWall1NormalAzimuth)
       IN  results' = Append(results,
                             [timestamp |-> point.timestamp, hit_result |-> hit])
    /\ UNCHANGED <<sim_pc, sun_data, result_index, intervals,
                   current_interval_start, current_interval_window,
                   current_interval_count, simulation>>
    /\ UNCHANGED <<rayVars, hitVars, geoVars, cliVars, svcVars, cfgVars>>

\* consolidate_to_intervals is entered, lines 146-152
Consolidate ==
    /\ sim_pc = "simulate"
    /\ Len(results) = Len(sun_data)
    /\ intervals' = <<>>
    /\ current_interval_start' = None
    /\ current_interval_window' = None
    /\ current_interval_count' = 0
    /\ IF results = <<>>
       THEN sim_pc' = "count" /\ result_index' = 0
       ELSE sim_pc' = "group" /\ result_index' = 1
    /\ UNCHANGED <<sun_data, results, simulation>>
    /\ UNCHANGED <<rayVars, hitVars, geoVars, cliVars, svcVars, cfgVars>>

\* one iteration of the loop of consolidate_to_intervals, lines 154-179
GroupResult ==
    /\ sim_pc = "group"
    /\ result_index <= Len(results)
    /\ LET r == results[result_index]
           k == list_index(results, result_index)
       IN  IF r.hit_result.is_hit
           THEN /\ IF current_interval_start = None
                   THEN /\ current_interval_start' = r.timestamp
                        /\ current_interval_window' = r.hit_result.window_id
                        /\ current_interval_count' = 1
                   ELSE /\ current_interval_count' = current_interval_count + 1
                        /\ UNCHANGED <<current_interval_start,
                                       current_interval_window>>
                /\ result_index' = result_index + 1
                /\ UNCHANGED <<sim_pc, intervals>>
           ELSE IF current_interval_start = None
           THEN /\ result_index' = result_index + 1
                /\ UNCHANGED <<sim_pc, intervals, current_interval_start,
                               current_interval_window, current_interval_count>>
           ELSE IF k = 0
           THEN /\ sim_pc' = "ValueError"
                /\ UNCHANGED <<result_index, intervals, current_interval_start,
                               current_interval_window, current_interval_count>>
           ELSE /\ intervals' =
                       Append(intervals,
                              HitInterval(current_interval_start,
                                          element_before(results, k).timestamp,
                                          current_interval_window,
                                          current_interval_count))
                /\ current_interval_start' = None
                /\ current_interval_window' = None
                /\ current_interval_count' = 0
                /\ result_index' = result_index + 1
                /\ UNCHANGED sim_pc
    /\ UNCHANGED <<sun_data, results, simulation>>
    /\ UNCHANGED <<rayVars, hitVars, geoVars, cliVars, svcVars, cfgVars>>

\* lines 181-192: the interval that is open when the results end
CloseFinalInterval ==
    /\ sim_pc = "group"
    /\ result_index > Len(results)
    /\ intervals' =
           IF current_interval_start # None
           THEN Append(intervals,
                       HitInterval(current_interval_start,
                                   results[Len(results)].timestamp,
                                   current_interval_window,
                                   current_interval_count))
           ELSE intervals
    /\ sim_pc' = "count"
    /\ UNCHANGED <<sun_data, results, result_index, current_interval_start,
                   current_interval_window, current_interval_count, simulation>>
    /\ UNCHANGED <<rayVars, hitVars, geoVars, cliVars, svcVars, cfgVars>>

\* simulate_time_range, lines 229-237
Summarise ==
    /\ sim_pc = "count"
    /\ simulation' =
           [total_timestamps |-> Len(results),
            hit_count |-> count_hits(results),
            miss_count |-> Len(results) - count_hits(results),
            hit_intervals |-> intervals,
            results |-> results]
    /\ sim_pc' = "done"
    /\ UNCHANGED <<sun_data, results, result_index, intervals,
                   current_interval_start, current_interval_window,
                   current_interval_count>>
    /\ UNCHANGED <<rayVars, hitVars, geoVars, cliVars, svcVars, cfgVars>>

NextSim ==
    CheckPoint \/ Consolidate \/ GroupResult \/ CloseFinalInterval \/ Summarise

SpecSim == InitSim /\ [][NextSim]_vars

-----------------------------------------------------------------------------
(* check_plant_sun.py: main *)

\* Positional tokens of the command line.  float() accepts "inf"; "abc" is
\* not a number.
AzimuthTokens == {"217", "37", "inf", "abc"}

ElevationTokens == {"37", "-37", "abc"}

\* float(token) for the tokens that are numbers; inf is an infinite angle
token_value(token) ==
    CASE token = "217" -> 217
      [] token = "37"  -> 37
      [] token = "-37" -> -37
      [] token = "inf" -> InfAngle

PositionalLists ==
    {<<>>} \cup {<<a>> : a \in AzimuthTokens}
           \cup {<<a, e>> : a \in AzimuthTokens, e \in ElevationTokens}

\* sys.argv[1:]: the positionals, the value of --config, and --json
ArgLists ==
    [positionals : PositionalLists, config : {None, "a.json"}, json : BOOLEAN]

\* "config/default_config.json" of get_current_sun_position (relative to the
\* working directory) and DEFAULT_CONFIG_PATH of the service module
CwdDefaultPath == "config/default_config.json"

PackageDefaultPath == "DEFAULT_CONFIG_PATH"

ConfigPaths == {"a.json", CwdDefaultPath, PackageDefaultPath}

\* what Config.from_json_file finds at a path: a configuration with or
\* without location, a file it cannot parse, or no file
FileStates == {"valid", "no_location", "malformed", "missing"}

\* parser.parse_args() ends the process with status 2 for a token that
\* float() rejects
argparse_rejects(a) ==
    \E k \in DOMAIN a.positionals : a.positionals[k] = "abc"

\* Config.from_json_file(path) raises (FileNotFoundError, JSONDecodeError,
\* KeyError, ValueError)
from_json_file_raises(fs, path) == fs[path] \in {"malformed", "missing"}

\* get_current_sun_position(path) raises: the file, or no location
sun_position_raises(fs, path) ==
    from_json_file_raises(fs, path) \/ fs[path] = "no_location"

\* check_sun_hits_plant raises for the arguments of the command line
hit_test_raises(az, el) ==
    /\ ~below_horizon(el)
    /\ math_domain_error(simplified_azimuth(az, DefaultWall1NormalAzimuth))

\* check_sunlight / get_sunlight_details for a configuration that loads
service_result(az, el) ==
    check_sun_hits_plant(az, el, SimConfig.plant, SimConfig.windows,
                         SimConfig.sample_points_angular,
                         SimConfig.sample_points_vertical,
                         DefaultWall1NormalAzimuth)

\* a line of stdout: print("on"), print("off"), or print(json.dumps(..))
Line(format, is_hit) == [format |-> format, is_hit |-> is_hit]

InitCli ==
    /\ cli_pc = "parse"
    /\ args \in ArgLists
    /\ cli_files \in [ConfigPaths -> FileStates]
    /\ azimuth = 0 /\ elevation = 0 /\ config_path = None
    /\ cli_error = None /\ stdout = <<>> /\ exit_status = 0
    /\ HitIdle /\ RayIdle /\ GeoIdle /\ SimIdle /\ SvcIdle /\ CfgIdle

\* line 62: parser.parse_args(), outside the try
ParseArgs ==
    /\ cli_pc = "parse"
    /\ IF argparse_rejects(args)
       THEN cli_pc' = "exited" /\ exit_status' = 2
       ELSE cli_pc' = "position" /\ UNCHANGED exit_status
    /\ UNCHANGED <<args, cli_files, azimuth, elevation, config_path,
                   cli_error, stdout>>
    /\ UNCHANGED <<rayVars, hitVars, geoVars, simVars, svcVars, cfgVars>>

\* lines 66-69: both angles were given
ExplicitPosition ==
    /\ cli_pc = "position"
    /\ Len(args.positionals) = 2
    /\ azimuth' = token_value(args.positionals[1])
    /\ elevation' = token_value(args.positionals[2])
    /\ config_path' = args.config
    /\ cli_pc' = "answer"
    /\ UNCHANGED <<args, cli_files, cli_error, stdout, exit_status>>
    /\ UNCHANGED <<rayVars, hitVars, geoVars, simVars, svcVars, cfgVars>>

\* lines 70-73: the position of the sun now, at the location of --config
ConfigPosition ==
    /\ cli_pc = "position"
    /\ Len(args.positionals) < 2 /\ args.config # None
    /\ IF sun_position_raises(cli_files, args.config)
       THEN /\ cli_error' = "get_current_sun_position"
            /\ cli_pc' = "except"
            /\ UNCHANGED <<azimuth, elevation, config_path>>
       ELSE /\ \E q \in SunPositions : azimuth' = q[1] /\ elevation' = q[2]
            /\ config_path' = args.config
            /\ cli_pc' = "answer"
            /\ UNCHANGED cli_error
    /\ UNCHANGED <<args, cli_files, stdout, exit_status>>
    /\ UNCHANGED <<rayVars, hitVars, geoVars, simVars, svcVars, cfgVars>>

\* lines 74-81: no angles and no --config; the default configuration, and
\* print("off"), sys.exit(0) when that fails
DefaultPosition ==
    /\ cli_pc = "position"
    /\ Len(args.positionals) < 2 /\ args.config = None
    /\ IF sun_position_raises(cli_files, CwdDefaultPath)
       THEN /\ cli_error' = "get_current_sun_position"
            /\ stdout' = Append(stdout, Line("plain", FALSE))
            /\ exit_status' = 0
            /\ cli_pc' = "exited"
            /\ UNCHANGED <<azimuth, elevation, config_path>>
       ELSE /\ \E q \in SunPositions : azimuth' = q[1] /\ elevation' = q[2]
            /\ config_path' = None
            /\ cli_pc' = "answer"
            /\ UNCHANGED <<cli_error, stdout, exit_status>>
    /\ UNCHANGED <<args, cli_files>>
    /\ UNCHANGED <<rayVars, hitVars, geoVars, simVars, svcVars, cfgVars>>

\* lines 83-89: get_sunlight_details or check_sunlight, and the print; the
\* configuration is loaded from config_path or from DEFAULT_CONFIG_PATH
Answer ==
    /\ cli_pc = "answer"
    /\ LET path == IF config_path = None THEN PackageDefaultPath ELSE config_path
       IN  IF from_json_file_raises(cli_files, path)
           THEN /\ cli_error' = "load_config"
                /\ cli_pc' = "except"
                /\ UNCHANGED <<stdout, exit_status>>
           ELSE IF hit_test_raises(azimuth, elevation)
           THEN /\ cli_error' = "check_sun_hits_plant"
                /\ cli_pc' = "except"
                /\ UNCHANGED <<stdout, exit_status>>
           ELSE /\ stdout' =
                       Append(stdout,
                              Line(IF args.json THEN "json" ELSE "plain",
                                   service_result(azimuth, elevation).is_hit))
                /\ exit_status' = 0
                /\ cli_pc' = "exited"
                /\ UNCHANGED cli_error
    /\ UNCHANGED <<args, cli_files, azimuth, elevation, config_path>>
    /\ UNCHANGED <<rayVars, hitVars, geoVars, simVars, svcVars, cfgVars>>

\* lines 91-98: except Exception
HandleException ==
    /\ cli_pc = "except"
    /\ stdout' = Append(stdout,
                        Line(IF args.json THEN "json" ELSE "plain", FALSE))
    /\ exit_status' = 0
    /\ cli_pc' = "exited"
    /\ UNCHANGED <<args, cli_files, azimuth, elevation, config_path, cli_error>>
    /\ UNCHANGED <<rayVars, hitVars, geoVars, simVars, svcVars, cfgVars>>

NextCli ==
    ParseArgs \/ ExplicitPosition \/ ConfigPosition \/ DefaultPosition
        \/ Answer \/ HandleException

SpecCli == InitCli /\ [][NextCli]_vars

-----------------------------------------------------------------------------
(* homeassistant/service.py: load_config, clear_config_cache *)

\* the threads that call into the module, and the paths they load
Threads == {1, 2}

SvcPaths == {"p.json", "q.json"}

\* The content of a file is a version number >= 1, or 0 for a file that
\* Config.from_json_file cannot load (missing or malformed).
MaxVersion == 2

\* calls of load_config and clear_config_cache in one behaviour
MaxCalls == 3

\* the Config parsed from the content v of the file at path
ParsedConfig(path, v) == [path |-> path, version |-> v]

\* what a call has returned: nothing yet, a Config, None, or an exception
NotReturned == [kind |-> "not returned"]

ReturnedValue(config) ==
    IF config = NoValue THEN [kind |-> "None"]
    ELSE [kind |-> "Config", config |-> config]

RaisedException == [kind |-> "raised"]

\* line 66, second operand, with every path taken for the cached one
path_matches_any(cached_path, p) == TRUE

\* line 66, second operand: _cached_config_path == config_path_str
path_matches(cached_path, p) == cached_path = p

InitSvc ==
    /\ cached_config = NoValue /\ cached_config_path = None
    /\ disk \in [SvcPaths -> 0..1]
    /\ reads = [p \in SvcPaths |-> 0]
    /\ svc_pc = [t \in Threads |-> "idle"]
    /\ svc_path = [t \in Threads |-> None]
    /\ svc_loaded = [t \in Threads |-> NoValue]
    /\ svc_returned = [t \in Threads |-> NotReturned]
    /\ svc_calls = 0
    /\ HitIdle /\ RayIdle /\ GeoIdle /\ SimIdle /\ CliIdle /\ CfgIdle

SvcRest == <<rayVars, hitVars, geoVars, simVars, cliVars, cfgVars>>

\* the configuration file is rewritten while the process runs
WriteFile ==
    /\ \E p \in SvcPaths : \E v \in 1..MaxVersion :
          /\ v > disk[p]
          /\ disk' = [disk EXCEPT ![p] = v]
    /\ UNCHANGED <<cached_config, cached_config_path, reads, svc_pc, svc_path,
                   svc_loaded, svc_returned, svc_calls>>
    /\ UNCHANGED SvcRest

\* thread t enters load_config(p), lines 58-63
BeginLoad(t, p) ==
    /\ svc_pc[t] = "idle"
    /\ svc_calls < MaxCalls
    /\ svc_calls' = svc_calls + 1
    /\ svc_pc' = [svc_pc EXCEPT ![t] = "check_config"]
    /\ svc_path' = [svc_path EXCEPT ![t] = p]
    /\ svc_loaded' = [svc_loaded EXCEPT ![t] = NoValue]
    /\ svc_returned' = [svc_returned EXCEPT ![t] = NotReturned]
    /\ UNCHANGED <<cached_config, cached_config_path, disk, reads>>
    /\ UNCHANGED SvcRest

\* thread t enters clear_config_cache(), line 81
BeginClear(t) ==
    /\ svc_pc[t] = "idle"
    /\ svc_calls < MaxCalls
    /\ svc_calls' = svc_calls + 1
    /\ svc_pc' = [svc_pc EXCEPT ![t] = "clear_config"]
    /\ svc_path' = [svc_path EXCEPT ![t] = None]
    /\ svc_loaded' = [svc_loaded EXCEPT ![t] = NoValue]
    /\ svc_returned' = [svc_returned EXCEPT ![t] = NotReturned]
    /\ UNCHANGED <<cached_config, cached_config_path, disk, reads>>
    /\ UNCHANGED SvcRest

\* any thread may call while another is inside the module
Call == \E t \in Threads : BeginClear(t) \/ \E p \in SvcPaths : BeginLoad(t, p)

\* a call begins only when no other call is in progress
CallAlone ==
    /\ \A t \in Threads : svc_pc[t] = "idle"
    /\ Call

\* line 66, first operand: _cached_config is not None
CheckConfig(t) ==
    /\ svc_pc[t] = "check_config"
    /\ svc_pc' = [svc_pc EXCEPT ![t] =
                     IF cached_config # NoValue THEN "check_path" ELSE "load"]
    /\ UNCHANGED <<cached_config, cached_config_path, disk, reads, svc_path,
                   svc_loaded, svc_returned, svc_calls>>
    /\ UNCHANGED SvcRest

\* line 66, second operand
CheckPath(t) ==
    /\ svc_pc[t] = "check_path"
    /\ svc_pc' = [svc_pc EXCEPT ![t] =
                     IF path_matches(cached_config_path, svc_path[t])
                     THEN "return_cached" ELSE "load"]
    /\ UNCHANGED <<cached_config, cached_config_path, disk, reads, svc_path,
                   svc_loaded, svc_returned, svc_calls>>
    /\ UNCHANGED SvcRest

\* line 67: return _cached_config, the global as it is now
ReturnCached(t) ==
    /\ svc_pc[t] = "return_cached"
    /\ svc_returned' = [svc_returned EXCEPT ![t] = ReturnedValue(cached_config)]
    /\ svc_pc' = [svc_pc EXCEPT ![t] = "idle"]
    /\ UNCHANGED <<cached_config, cached_config_path, disk, reads, svc_path,
                   svc_loaded, svc_calls>>
    /\ UNCHANGED SvcRest

\* line 70, right-hand side: Config.from_json_file(config_path) reads the
\* file; an exception leaves load_config before anything is stored
ReadFile(t) ==
    /\ svc_pc[t] = "load"
    /\ reads' = [reads EXCEPT ![svc_path[t]] = @ + 1]
    /\ IF disk[svc_path[t]] = 0
       THEN /\ svc_returned' = [svc_returned EXCEPT ![t] = RaisedException]
            /\ svc_pc' = [svc_pc EXCEPT ![t] = "idle"]
            /\ UNCHANGED svc_loaded
       ELSE /\ svc_loaded' = [svc_loaded EXCEPT ![t] =
                                 ParsedConfig(svc_path[t], disk[svc_path[t]])]
            /\ svc_pc' = [svc_pc EXCEPT ![t] = "store_config"]
            /\ UNCHANGED svc_returned
    /\ UNCHANGED <<cached_config, cached_config_path, disk, svc_path, svc_calls>>
    /\ UNCHANGED SvcRest

\* line 70, the assignment to the global _cached_config
StoreConfig(t) ==
    /\ svc_pc[t] = "store_config"
    /\ cached_config' = svc_loaded[t]
    /\ svc_pc' = [svc_pc EXCEPT ![t] = "store_path"]
    /\ UNCHANGED <<cached_config_path, disk, reads, svc_path, svc_loaded,
                   svc_returned, svc_calls>>
    /\ UNCHANGED SvcRest

\* line 71: _cached_config_path = config_path_str
StorePath(t) ==
    /\ svc_pc[t] = "store_path"
    /\ cached_config_path' = svc_path[t]
    /\ svc_pc' = [svc_pc EXCEPT ![t] = "return_loaded"]
    /\ UNCHANGED <<cached_config, disk, reads, svc_path, svc_loaded,
                   svc_returned, svc_calls>>
    /\ UNCHANGED SvcRest

\* line 73: return _cached_config, the global as it is now
ReturnLoaded(t) ==
    /\ svc_pc[t] = "return_loaded"
    /\ svc_returned' = [svc_returned EXCEPT ![t] = ReturnedValue(cached_config)]
    /\ svc_pc' = [svc_pc EXCEPT ![t] = "idle"]
    /\ UNCHANGED <<cached_config, cached_config_path, disk, reads, svc_path,
                   svc_loaded, svc_calls>>
    /\ UNCHANGED SvcRest

\* line 82: _cached_config = None
ClearConfig(t) ==
    /\ svc_pc[t] = "clear_config"
    /\ cached_config' = NoValue
    /\ svc_pc' = [svc_pc EXCEPT ![t] = "clear_path"]
    /\ UNCHANGED <<cached_config_path, disk, reads, svc_path, svc_loaded,
                   svc_returned, svc_calls>>
    /\ UNCHANGED SvcRest

\* line 83: _cached_config_path = None
ClearPath(t) ==
    /\ svc_pc[t] = "clear_path"
    /\ cached_config_path' = None
    /\ svc_returned' = [svc_returned EXCEPT ![t] = ReturnedValue(NoValue)]
    /\ svc_pc' = [svc_pc EXCEPT ![t] = "idle"]
    /\ UNCHANGED <<cached_config, disk, reads, svc_path, svc_loaded, svc_calls>>
    /\ UNCHANGED SvcRest

\* one bytecode-level step of a thread inside the module
SvcStep ==
    \E t \in Threads :
        \/ CheckConfig(t) \/ CheckPath(t) \/ ReturnCached(t)
        \/ ReadFile(t) \/ StoreConfig(t) \/ StorePath(t) \/ ReturnLoaded(t)
        \/ ClearConfig(t) \/ ClearPath(t)

\* calls one after the other
NextSvcSequential == WriteFile \/ CallAlone \/ SvcStep

SpecSvcSequential == InitSvc /\ [][NextSvcSequential]_vars

\* calls from concurrent threads
NextSvc == WriteFile \/ Call \/ SvcStep

SpecSvc == InitSvc /\ [][NextSvc]_vars

-----------------------------------------------------------------------------
(* models.py: Config.from_dict, one entry of "windows" *)

\* data["corner"], absent: (0.0, 0.0)
Corner == <<0, 0>>

\* centres on wall 1, on wall 2, in the corner, on the diagonals, and off
\* both walls
DictCenters ==
    {<<4, 0, 5>>, <<0, 3, 5>>, <<0, 0, 5>>, <<2, 2, 5>>, <<-2, 2, 5>>,
     <<3, 1, 5>>, <<1, 3, 5>>}

\* a window entry with a centre and no position keys; wall_axis is the axis
\* of the wall its wall_id names (None: no such wall, or a wall without one)
WindowDicts ==
    [id : {"w"},
     center : DictCenters,
     width : {2, 4},
     height : {2},
     wall_normal_azimuth_deg : {180},
     wall_thickness : {1},
     axis : {None, "x", "y"},
     wall_axis : {None, "x", "y"}]

\* lines 248-260: _infer_axis
infer_axis(d) ==
    IF d.axis \in {"x", "y"} THEN d.axis
    ELSE IF d.wall_axis \in {"x", "y"} THEN d.wall_axis
    ELSE IF Abs(d.center[2]) <= Abs(d.center[1]) THEN "x" ELSE "y"

\* lines 262-276: _derive_position for an entry without position keys
\* (width is even in the model)
derive_position(d, axis) ==
    IF axis = "x" THEN d.center[1] - d.width \div 2 - Corner[1]
    ELSE d.center[2] - d.width \div 2 - Corner[2]

\* lines 313-351: the Window made of the entry
from_dict_window(d) ==
    LET axis == infer_axis(d)
        position_along_wall == derive_position(d, axis)
        center ==
            IF axis = "x"
            THEN <<Corner[1] + position_along_wall + d.width \div 2,
                   Corner[2], d.center[3]>>
            ELSE <<Corner[1],
                   Corner[2] + position_along_wall + d.width \div 2,
                   d.center[3]>>
    IN  [id |-> d.id, center |-> center, width |-> d.width,
         height |-> d.height,
         wall_normal_azimuth |-> d.wall_normal_azimuth_deg,
         wall_thickness |-> d.wall_thickness, axis |-> axis]

\* the Window a caller constructs from the same values without an axis
untagged_window(d) ==
    [id |-> d.id, center |-> d.center, width |-> d.width,
     height |-> d.height,
     wall_normal_azimuth |-> d.wall_normal_azimuth_deg,
     wall_thickness |-> d.wall_thickness, axis |-> None]

InitLoad ==
    /\ load_pc = "call"
    /\ window_dict \in WindowDicts
    /\ loaded_window = NoValue
    /\ entry_pc = "idle" /\ entry_fn = None /\ entry_config = NoValue
    /\ entry_args = NoValue /\ entry_result = NoValue
    /\ HitIdle /\ RayIdle /\ GeoIdle /\ SimIdle /\ CliIdle /\ SvcIdle

\* Config.from_dict makes the Window of the entry
FromDict ==
    /\ load_pc = "call"
    /\ loaded_window' = from_dict_window(window_dict)
    /\ load_pc' = "loaded"
    /\ UNCHANGED <<window_dict, entry_pc, entry_fn, entry_config, entry_args,
                   entry_result>>
    /\ UNCHANGED <<rayVars, hitVars, geoVars, simVars, cliVars, svcVars>>

NextLoad == FromDict

SpecLoad == InitLoad /\ [][NextLoad]_vars

-----------------------------------------------------------------------------
(* The entry points that take a Config *)

\* A Config: its walls with the azimuth each declares, the plant, the
\* openings and the sampling resolution
EntryWindowLists ==
    LET opening(id) == CHOOSE w \in WindowCatalog : w.id = id
    IN  {<<opening("D")>>, <<opening("B"), opening("C")>>,
         <<opening("C"), opening("D")>>}

EntryConfigs ==
    [walls : {<<[id |-> "wall1", outward_normal_azimuth_deg |-> a]>> :
                 a \in ReferenceAzimuths},
     plant : Plants,
     windows : EntryWindowLists,
     sample_points_angular : {4},
     sample_points_vertical : {2}]

\* sun positions as (azimuth_deg, elevation_deg); the azimuths are those
\* whose direction the model has in the frame of every reference azimuth
EntryPositions == {0, 90, 180, 270} \X {-37, 37}

\* most sun data points of one simulate_time_range call
MaxQueries == 2

EntryFunctions ==
    {"check_sun_hits_plant_from_config", "simulate_time_range",
     "check_sunlight", "get_sunlight_details", "get_sunlight_state"}

\* check_sun_hits_plant_from_config passing the azimuth the first wall of
\* the configuration declares
check_sun_hits_plant_from_config_wall_azimuth(azimuth_deg, elevation_deg, config) ==
    check_sun_hits_plant(
        azimuth_deg, elevation_deg, config.plant, config.windows,
        config.sample_points_angular, config.sample_points_vertical,
        config.walls[1].outward_normal_azimuth_deg)

\* hit_test.py check_sun_hits_plant_from_config: the call names no
\* wall1_normal_azimuth, so the default of the signature applies
check_sun_hits_plant_from_config(azimuth_deg, elevation_deg, config) ==
    check_sun_hits_plant(
        azimuth_deg, elevation_deg, config.plant, config.windows,
        config.sample_points_angular, config.sample_points_vertical,
        DefaultWall1NormalAzimuth)

InitEntry ==
    /\ entry_pc = "call"
    /\ entry_fn \in EntryFunctions
    /\ entry_config \in EntryConfigs
    /\ entry_args \in
          UNION {[1..n -> EntryPositions] :
                    n \in 1..(IF entry_fn = "simulate_time_range"
                              THEN MaxQueries ELSE 1)}
    /\ entry_result = NoValue
    /\ load_pc = "idle" /\ window_dict = NoValue /\ loaded_window = NoValue
    /\ HitIdle /\ RayIdle /\ GeoIdle /\ SimIdle /\ CliIdle /\ SvcIdle

EntryRest ==
    <<rayVars, hitVars, geoVars, simVars, cliVars, svcVars, load_pc,
      window_dict, loaded_window, entry_fn, entry_config, entry_args>>

\* hit_test.py lines 133-155
CheckSunHitsPlantFromConfig ==
    /\ entry_pc = "call"
    /\ entry_fn = "check_sun_hits_plant_from_config"
    /\ entry_result' =
           check_sun_hits_plant_from_config(
               entry_args[1][1], entry_args[1][2], entry_config)
    /\ entry_pc' = "done"
    /\ UNCHANGED EntryRest

\* time_range.py lines 213-224: the hit results of the sun data points, in
\* order
SimulateTimeRange ==
    /\ entry_pc = "call"
    /\ entry_fn = "simulate_time_range"
    /\ entry_result' =
           [k \in DOMAIN entry_args |->
               check_sun_hits_plant(
                   entry_args[k][1], entry_args[k][2], entry_config.plant,
                   entry_config.windows, entry_config.sample_points_angular,
                   entry_config.sample_points_vertical,
                   DefaultWall1NormalAzimuth)]
    /\ entry_pc' = "done"
    /\ UNCHANGED EntryRest

\* the HitResult the three functions of service.py compute (lines 110-117,
\* 148-155, 197-204), for the Config that load_config returned
service_hit_result ==
    check_sun_hits_plant(
        entry_args[1][1], entry_args[1][2], entry_config.plant,
        entry_config.windows, entry_config.sample_points_angular,
        entry_config.sample_points_vertical, DefaultWall1NormalAzimuth)

\* service.py lines 109-119
CheckSunlight ==
    /\ entry_pc = "call"
    /\ entry_fn = "check_sunlight"
    /\ entry_result' = service_hit_result.is_hit
    /\ entry_pc' = "done"
    /\ UNCHANGED EntryRest

\* service.py lines 147-167
GetSunlightDetails ==
    /\ entry_pc = "call"
    /\ entry_fn = "get_sunlight_details"
    /\ entry_result' =
           [is_hit |-> service_hit_result.is_hit,
            window_id |-> service_hit_result.window_id,
            reason |-> service_hit_result.reason,
            sun_azimuth |-> entry_args[1][1],
            sun_elevation |-> entry_args[1][2],
            n_hit_points |-> Len(service_hit_result.hit_points)]
    /\ entry_pc' = "done"
    /\ UNCHANGED EntryRest

\* service.py lines 196-213
GetSunlightState ==
    /\ entry_pc = "call"
    /\ entry_fn = "get_sunlight_state"
    /\ entry_result' =
           IF service_hit_result.is_hit THEN "direct_sun"
           ELSE IF service_hit_result.reason = "sun_below_horizon"
                THEN "below_horizon"
                ELSE "no_window_path"
    /\ entry_pc' = "done"
    /\ UNCHANGED EntryRest

NextEntry ==
    CheckSunHitsPlantFromConfig \/ SimulateTimeRange \/ CheckSunlight
        \/ GetSunlightDetails \/ GetSunlightState

SpecEntry == InitEntry /\ [][NextEntry]_vars

-----------------------------------------------------------------------------
(* A call of any of the functions *)

InitAll == Init \/ InitRay \/ InitGeo \/ InitSim

NextAll == Next \/ NextRay \/ NextGeo \/ NextSim

SpecAll == InitAll /\ [][NextAll]_vars

-----------------------------------------------------------------------------
(* Properties of check_sun_hits_plant *)

\* the direction and the sample points of the call under way, recomputed
\* from its arguments
CallDirection ==
    sun_direction_simplified(
        sun_azimuth_deg, sun_elevation_deg, wall1_normal_azimuth)

CallPoints == generate_plant_sample_points(plant, n_angular, n_vertical)

\* the ray of sample point i passes through opening j of the list
Lit(i, j) == ray_intersects_window(CallPoints[i], CallDirection, windows[j])

LitPoints == {i \in DOMAIN CallPoints : \E j \in DOMAIN windows : Lit(i, j)}

LitWindows == {j \in DOMAIN windows : \E i \in DOMAIN CallPoints : Lit(i, j)}

Lowest(S) == CHOOSE n \in S : \A m \in S : n <= m

\* C1: with sun_elevation_deg <= 0 the call returns is_hit = false with
\* reason "sun_below_horizon", no hit points, no window_id and no
\* sun_direction, and it never computes a direction, samples the plant or
\* enters the scan.
C1_HorizonGate ==
    sun_elevation_deg <= 0 =>
        /\ pc \in {"call", "done"}
        /\ sun_dir = NoValue
        /\ sample_points = <<>>
        /\ point_index = 0
        /\ pc = "done" =>
              result = [is_hit |-> FALSE, window_id |-> None,
                        hit_points |-> <<>>, sun_direction |-> NoValue,
                        reason |-> "sun_below_horizon"]

\* the sun on the horizon, in front of an opening that a horizontal ray
\* from the plant would pass through
C1_Witness ==
    /\ pc = "done"
    /\ sun_elevation_deg = 0
    /\ result.reason = "sun_below_horizon"
    /\ ~math_domain_error(
           simplified_azimuth(sun_azimuth_deg, wall1_normal_azimuth))
    /\ LitPoints # {}

\* C2: for sun_elevation_deg > 0 the call returns is_hit = true iff the ray
\* of some sample point passes through some opening of the list; otherwise
\* it returns is_hit = false with reason "no_window_path" and the sun
\* direction (so for the empty list).
C2_HitIffSomeRay ==
    (pc = "done" /\ sun_elevation_deg > 0) =>
        /\ result.is_hit <=> LitPoints # {}
        /\ LitPoints = {} =>
              /\ result.reason = "no_window_path"
              /\ result.sun_direction = CallDirection
        /\ windows = <<>> => ~result.is_hit

\* a hit that neither the first sample point nor the first opening gives
C2_Witness ==
    /\ pc = "done"
    /\ result.is_hit
    /\ 1 \notin LitPoints
    /\ 1 \notin LitWindows

\* C3 as claimed: window_id is the lowest-index opening among all openings
\* that the ray of at least one sample point passes through.
C3_LowestLitOpening ==
    (pc = "done" /\ sun_elevation_deg > 0 /\ result.is_hit) =>
        result.window_id = windows[Lowest(LitWindows)].id

\* C3 as amended: window_id is the first opening, in list order, that the
\* ray of the first illuminated sample point (in generation order) passes
\* through.
C3_FirstOpeningOfFirstLitPoint ==
    (pc = "done" /\ sun_elevation_deg > 0 /\ result.is_hit) =>
        LET i0 == Lowest(LitPoints)
            j0 == Lowest({j \in DOMAIN windows : Lit(i0, j)})
        IN  result.window_id = windows[j0].id

\* the first illuminated point is lit through a later opening of the list
\* than some other point
C3_Witness ==
    /\ pc = "done"
    /\ result.is_hit
    /\ result.window_id # windows[Lowest(LitWindows)].id

\* the opening of the catalog that carries an id
Opening(id) == CHOOSE w \in WindowCatalog : w.id = id

\* C6 as claimed: with the sun at azimuth 0 and any elevation > 0 no hit is
\* credited to an opening whose outward normal has azimuth 180, whatever
\* wall1_normal_azimuth is passed.
C6_NorthSunNeverThroughSouthOpening ==
    (pc = "done" /\ sun_azimuth_deg = 0 /\ sun_elevation_deg > 0
        /\ result.is_hit) =>
        Opening(result.window_id).wall_normal_azimuth # 180

\* C6 as amended: the same for a wall1_normal_azimuth less than 90 degrees
\* away from 180 (as 180 itself and the default 210 are) and an elevation
\* in (0, 90]; no sample point is then lit through such an opening at all.
C6_NorthSunNeverThroughSouthOpeningRotatedLessThan90 ==
    (pc = "done" /\ sun_azimuth_deg = 0 /\ sun_elevation_deg > 0
        /\ sun_elevation_deg <= 90
        /\ Abs(wall1_normal_azimuth - 180) < 90) =>
        /\ result.is_hit =>
              Opening(result.window_id).wall_normal_azimuth # 180
        /\ \A i \in DOMAIN CallPoints, j \in DOMAIN windows :
              windows[j].wall_normal_azimuth = 180 => ~Lit(i, j)

\* the north sun, turned north-west by the reference wall, shines through
\* the west opening while a south opening is in the list
C6_Witness ==
    /\ pc = "done"
    /\ sun_azimuth_deg = 0
    /\ wall1_normal_azimuth = 217
    /\ result.is_hit
    /\ \E j \in DOMAIN windows : windows[j].wall_normal_azimuth = 180

\* C7: with sun_elevation_deg = 90 the call returns is_hit = false with
\* reason "no_window_path", for every azimuth, reference wall azimuth and
\* list of openings.
C7_ZenithNeverHits ==
    (pc = "done" /\ sun_elevation_deg = 90) =>
        result = [is_hit |-> FALSE, window_id |-> None, hit_points |-> <<>>,
                  sun_direction |-> CallDirection,
                  reason |-> "no_window_path"]

\* the zenith sun, a sample point that lies in the plane and inside the
\* rectangle of an opening, and a floating-point residue of the direction
\* that passes the sun-side check of that opening
C7_Witness ==
    /\ pc = "done"
    /\ sun_elevation_deg = 90
    /\ \E i \in DOMAIN CallPoints, j \in DOMAIN windows :
          LET w == windows[j]
              o == CallPoints[i]
              a == plane_axis_of(w)
              h == IF a = 1 THEN 1 ELSE 2
          IN  /\ ~wrong_side(dot_sign(CallDirection, normal(w)))
              /\ o[a + 1] = w.center[a + 1]
              /\ 2 * Abs(o[h] - w.center[h]) <= w.width
              /\ 2 * Abs(o[3] - w.center[3]) <= w.height

-----------------------------------------------------------------------------
(* Properties of ray_window_intersection *)

\* the axis (0 = x, 1 = y) across the plane of the opening of the call, the
\* direction component across it and the coordinates of its two faces
CallAxis == plane_axis_of(window)

Across == ray_direction[CallAxis + 1]

InnerCoord == window.center[CallAxis + 1]

OuterCoord == InnerCoord - window.wall_thickness

\* dot(ray_direction, window.normal) > 0
SunSide == dot_sign(ray_direction, normal(window)) > 0

\* the ray is not parallel to the plane and crosses the plane at coord with
\* t >= 0
CrossesAhead(coord) ==
    /\ Across[1] # 0
    /\ (coord - ray_origin[CallAxis + 1]) * Sgn(Across[1]) >= 0

\* the crossing of the plane at coord, coordinate k, times Across
CrossingNum(coord, k) ==
    DAdd(DScale(ray_origin[k], Across),
         DScale(coord - ray_origin[CallAxis + 1], ray_direction[k]))

\* local_h (k = 1 or 2) or local_v (k = 3) of that crossing, times Across
OffsetNum(coord, k) == DSub(CrossingNum(coord, k), DScale(window.center[k], Across))

HAxis == IF CallAxis = 1 THEN 1 ELSE 2

\* abs(offset) <= extent / 2 + slack, for offset = num / Across
AtMost(num, extent, slack) ==
    DSgn(DSub(DScale(2, DAbs(num)), DScale(extent + 2 * slack, DAbs(Across)))) <= 0

\* the crossing of the plane at coord lies within width / 2 + epsilon and
\* height / 2 + epsilon of the centre of the opening
WithinRect(coord) ==
    /\ AtMost(OffsetNum(coord, HAxis), window.width, Epsilon)
    /\ AtMost(OffsetNum(coord, 3), window.height, Epsilon)

MeetsPlane(coord) == CrossesAhead(coord) /\ WithinRect(coord)

\* the result carries the values of the crossing of the inner plane
InnerValues ==
    /\ ray_result.t = <<InnerCoord - ray_origin[CallAxis + 1], Across>>
    /\ ray_result.point = [k \in 1..3 |-> CrossingNum(InnerCoord, k)]
    /\ ray_result.local_h = OffsetNum(InnerCoord, HAxis)
    /\ ray_result.local_v = OffsetNum(InnerCoord, 3)

\* C4: for wall_thickness > 0 the call reports a hit iff the sun-side check
\* passes and the ray meets both the inner plane (center[axis]) and the outer
\* plane (center[axis] - wall_thickness) at t >= 0 within the width and
\* height bounds; on a hit the point, t and local offsets are those of the
\* inner plane.
C4_TunnelBothFaces ==
    (ray_pc = "done" /\ window.wall_thickness > 0) =>
        /\ ray_result.intersects <=>
              (SunSide /\ MeetsPlane(InnerCoord) /\ MeetsPlane(OuterCoord))
        /\ ray_result.intersects => InnerValues

\* a ray on the sun side that is within bounds on the inner face of a tunnel
\* and outside them on its outer face
C4_Witness ==
    /\ ray_pc = "done"
    /\ window.wall_thickness > 0
    /\ SunSide
    /\ CrossesAhead(InnerCoord)
    /\ AtMost(OffsetNum(InnerCoord, HAxis), window.width, 0)
    /\ AtMost(OffsetNum(InnerCoord, 3), window.height, 0)
    /\ CrossesAhead(OuterCoord)
    /\ ~WithinRect(OuterCoord)
    /\ ~ray_result.intersects

\* C5: with dot(ray_direction, window.normal) <= 0 the call returns
\* intersects = false without point, t or local offsets, whatever the
\* thickness, the axis tag, the position of the opening and the origin.
C5_SunSideFirst ==
    (ray_pc = "done" /\ ~SunSide) =>
        ray_result = [intersects |-> FALSE, point |-> NoValue, t |-> NoValue,
                      local_h |-> NoValue, local_v |-> NoValue]

\* a ray whose dot product with the normal is exactly 0 and that the plane
\* tests alone would let through
C5_Witness ==
    /\ ray_pc = "done"
    /\ dot_sign(ray_direction, normal(window)) = 0
    /\ MeetsPlane(InnerCoord)
    /\ MeetsPlane(OuterCoord)
    /\ ~ray_result.intersects

\* C8: the bounds tests are inclusive with tolerance.  When the sun-side
\* check passes and the ray crosses the faces of the opening at t >= 0, the
\* call reports a hit iff abs(local_h) <= width / 2 + epsilon and
\* abs(local_v) <= height / 2 + epsilon on the inner plane and, for a tunnel,
\* on the outer plane alike; so a crossing with abs(local_h) = width / 2 or
\* abs(local_v) = height / 2 exactly is a hit, and one beyond the tolerance
\* is a miss.
C8_InclusiveBounds ==
    LET thick == window.wall_thickness > 0
        lh == OffsetNum(InnerCoord, HAxis)
        lv == OffsetNum(InnerCoord, 3)
        on_edge_h == DScale(2, DAbs(lh)) = DScale(window.width, DAbs(Across))
        on_edge_v == DScale(2, DAbs(lv)) = DScale(window.height, DAbs(Across))
    IN  (/\ ray_pc = "done"
         /\ SunSide
         /\ CrossesAhead(InnerCoord)
         /\ thick => CrossesAhead(OuterCoord)) =>
            /\ ray_result.intersects <=>
                  (WithinRect(InnerCoord) /\ (thick => WithinRect(OuterCoord)))
            /\ (~thick /\ on_edge_h /\ AtMost(lv, window.height, 0)) =>
                  ray_result.intersects
            /\ (~thick /\ on_edge_v /\ AtMost(lh, window.width, 0)) =>
                  ray_result.intersects
            /\ ~AtMost(lh, window.width, Epsilon) => ~ray_result.intersects
            /\ ~AtMost(lv, window.height, Epsilon) => ~ray_result.intersects

\* a hit through a tunnel whose crossing of the inner face lies exactly on
\* the edge, abs(local_h) = width / 2, and whose crossing of the outer face
\* lies inside the rectangle
C8_Witness ==
    /\ ray_pc = "done"
    /\ window.wall_thickness > 0
    /\ ray_result.intersects
    /\ DScale(2, DAbs(ray_result.local_h))
          = DScale(window.width, DAbs(ray_result.t[2]))
    /\ AtMost(OffsetNum(OuterCoord, HAxis), window.width, 0)
    /\ AtMost(OffsetNum(OuterCoord, 3), window.height, 0)

\* C9: a ray parallel to the plane of the opening (the direction component
\* across the plane below 1e-10 in magnitude) never intersects it, also when
\* its origin lies in the plane and inside the rectangle.
C9_ParallelNeverHits ==
    (ray_pc = "done" /\ BelowEpsilon(Across)) => ~ray_result.intersects

\* a direction whose component across the plane is a non-zero residue, on
\* the sun side of the opening, from an origin in the plane and inside the
\* rectangle
C9_Witness ==
    /\ ray_pc = "done"
    /\ BelowEpsilon(Across) /\ Across # DZero
    /\ SunSide
    /\ ray_origin[CallAxis + 1] = InnerCoord
    /\ 2 * Abs(ray_origin[HAxis] - window.center[HAxis]) <= window.width
    /\ 2 * Abs(ray_origin[3] - window.center[3]) <= window.height
    /\ ~ray_result.intersects

\* C10: a result with intersects = true carries t >= 0, a point equal to
\* ray_origin + t * ray_direction on the inner plane of the opening,
\* abs(local_h) <= width / 2 + epsilon and abs(local_v) <= height / 2 +
\* epsilon; a crossing of the inner plane behind the origin (t < 0) is never
\* a hit.
C10_HitResultInvariants ==
    ray_pc = "done" =>
        /\ ray_result.intersects =>
              LET tn == ray_result.t[1]
                  td == ray_result.t[2]
              IN  /\ td[1] # 0
                  /\ tn * Sgn(td[1]) >= 0
                  /\ \A k \in 1..3 :
                        ray_result.point[k] =
                            DAdd(DScale(ray_origin[k], td),
                                 DScale(tn, ray_direction[k]))
                  /\ ray_result.point[CallAxis + 1] = DScale(InnerCoord, td)
                  /\ DLeq(DScale(2, DAbs(ray_result.local_h)),
                          DScale(window.width + 2 * Epsilon, DAbs(td)))
                  /\ DLeq(DScale(2, DAbs(ray_result.local_v)),
                          DScale(window.height + 2 * Epsilon, DAbs(td)))
        /\ (Across[1] # 0
            /\ (InnerCoord - ray_origin[CallAxis + 1]) * Sgn(Across[1]) < 0) =>
              ~ray_result.intersects

\* a ray on the sun side whose line crosses the inner plane inside the
\* rectangle, behind its origin
C10_Witness ==
    /\ ray_pc = "done"
    /\ SunSide
    /\ Across[1] # 0
    /\ (InnerCoord - ray_origin[CallAxis + 1]) * Sgn(Across[1]) < 0
    /\ WithinRect(InnerCoord)
    /\ window.wall_thickness = 0
    /\ ~ray_result.intersects

-----------------------------------------------------------------------------
(* The thin-plane model of an opening with an arbitrary normal *)

\* A value with residues of every order is the sequence of its coefficients
\* of 1, r, r*r, ...; its sign is the sign of its first non-zero coefficient.
POrders == 1..6

PConst(n) == [k \in POrders |-> IF k = 1 THEN n ELSE 0]

PDir(d) == [k \in POrders |-> IF k <= 3 THEN d[k] ELSE 0]

PAdd(p, q) == [k \in POrders |-> p[k] + q[k]]

PScale(n, p) == [k \in POrders |-> n * p[k]]

RECURSIVE PConv(_, _, _, _)
PConv(p, q, k, i) ==
    IF i > k THEN 0 ELSE p[i] * q[k + 1 - i] + PConv(p, q, k, i + 1)

PMul(p, q) == [k \in POrders |-> PConv(p, q, k, 1)]

RECURSIVE PSgnFrom(_, _)
PSgnFrom(p, k) ==
    IF k \notin POrders THEN 0
    ELSE IF p[k] # 0 THEN Sgn(p[k]) ELSE PSgnFrom(p, k + 1)

PSgn(p) == PSgnFrom(p, 1)

PAbs(p) == PScale(PSgn(p), p)

PDot(a, b) == PAdd(PAdd(PMul(a[1], b[1]), PMul(a[2], b[2])), PMul(a[3], b[3]))

\* N, the outward normal of the opening of the call (fifths), and its
\* horizontal axis [-N.y, N.x, 0]
ThinNormal == [k \in 1..3 |-> PDir(normal(window)[k])]

ThinHorizontal ==
    <<PScale(-1, ThinNormal[2]), ThinNormal[1], PConst(0)>>

ThinDirection == [k \in 1..3 |-> PDir(ray_direction[k])]

\* denom = dot(direction, N), in 125ths
ThinDenom == PDot(ThinDirection, ThinNormal)

\* dot(center - origin, N), in fifths: t is this over denom
ThinTNum ==
    PDot([k \in 1..3 |-> PConst(window.center[k] - ray_origin[k])], ThinNormal)

\* (P - center) * denom for P = origin + t * direction, in 125ths
ThinOffset ==
    [k \in 1..3 |->
        PAdd(PScale(ray_origin[k] - window.center[k], ThinDenom),
             PMul(ThinTNum, ThinDirection[k]))]

\* abs(num / den) <= extent / 2 + epsilon
ThinWithin(num, den, extent) ==
    PSgn(PAdd(PScale(2, PAbs(num)), PScale(-(extent + 2 * Epsilon), PAbs(den))))
        <= 0

\* denom > epsilon, t >= 0 and P within the rectangle around the centre
ThinPlaneHit ==
    /\ ThinDenom[1] > 0
    /\ PSgn(ThinTNum) >= 0
    /\ ThinWithin(PDot(ThinOffset, ThinHorizontal), PScale(5, ThinDenom),
                  window.width)
    /\ ThinWithin(ThinOffset[3], ThinDenom, window.height)

\* C11 as claimed: for wall_thickness <= 0 the call reports a hit exactly
\* when the thin-plane model of the opening does, with the plane, t and the
\* horizontal axis all derived from the outward normal N of the opening.
C11_ThinPlaneOfNormal ==
    (ray_pc = "done" /\ window.wall_thickness <= 0) =>
        (ray_result.intersects <=> ThinPlaneHit)

\* C11 as amended: for wall_thickness <= 0 the call reports a hit exactly
\* when dot(direction, N) > 0 and the ray meets, at t >= 0 and within
\* width / 2 + epsilon and height / 2 + epsilon of the centre, the
\* axis-aligned plane through the centre that the axis tag (or, without a
\* tag, the comparison of the centre coordinates) selects; the result then
\* carries the values of that crossing.
C11_ThinPlaneOfAxis ==
    (ray_pc = "done" /\ window.wall_thickness <= 0) =>
        /\ ray_result.intersects <=> (SunSide /\ MeetsPlane(InnerCoord))
        /\ ray_result.intersects => InnerValues

\* a hit through a thin opening of wall 2 (the plane x = const) whose normal
\* N lies in that plane
C11_Witness ==
    /\ ray_pc = "done"
    /\ window.wall_thickness <= 0
    /\ CallAxis = 0
    /\ normal(window)[1][1] = 0
    /\ ray_result.intersects
    /\ ~ThinPlaneHit

-----------------------------------------------------------------------------
(* Properties of generate_plant_sample_points *)

\* C12: generate_plant_sample_points returns n_angular * n_vertical + 2
\* points for all n_angular >= 0 and n_vertical >= 0, only the two centre
\* points when n_angular = 0 or n_vertical = 0, and it never divides by zero
\* (n_vertical = 1 takes the mid height).
C12_PointCount ==
    /\ pc # "ZeroDivisionError"
    /\ pc = "scan" =>
          /\ Len(sample_points) = n_angular * n_vertical + 2
          /\ (n_angular = 0 \/ n_vertical = 0) =>
                sample_points =
                    << <<plant.center_x, plant.center_y, plant.z_max>>,
                       <<plant.center_x, plant.center_y,
                         (plant.z_min + plant.z_max) \div 2>> >>

\* one level of several angles: the mid height is taken, nothing is divided
\* by n_vertical - 1 = 0
C12_Witness ==
    /\ pc = "scan"
    /\ n_vertical = 1
    /\ n_angular > 1
    /\ Len(sample_points) = n_angular + 2

\* the unit vector after q quarter turns from east towards north
QuarterTurn(q) ==
    CASE q % 4 = 0 -> <<1, 0>>
      [] q % 4 = 1 -> <<0, 1>>
      [] q % 4 = 2 -> <<-1, 0>>
      [] q % 4 = 3 -> <<0, -1>>

\* C13: the grid is emitted angular-major and vertical-minor: the point at
\* index i * n_vertical + j lies at angle 2 * pi * i / n_angular on the
\* cylinder and at height z_min + (z_max - z_min) * j / (n_vertical - 1) for
\* n_vertical > 1 (the first height z_min, the last z_max, all of them in
\* [z_min, z_max]) and (z_min + z_max) / 2 for n_vertical = 1; the top-centre
\* point and then the mid-height centre point are the last two elements.
C13_GridOrder ==
    pc = "scan" =>
        LET n == Len(sample_points)
        IN  /\ n >= 2
            /\ sample_points[n - 1] =
                   <<plant.center_x, plant.center_y, plant.z_max>>
            /\ 2 * sample_points[n][3] = plant.z_min + plant.z_max
            /\ sample_points[n][1] = plant.center_x
            /\ sample_points[n][2] = plant.center_y
            /\ \A i \in 0..(n_angular - 1), j \in 0..(n_vertical - 1) :
                  LET pt == sample_points[i * n_vertical + j + 1]
                      u == QuarterTurn((4 * i) \div n_angular)
                  IN  /\ pt[1] = plant.center_x + plant.radius * u[1]
                      /\ pt[2] = plant.center_y + plant.radius * u[2]
                      /\ plant.z_min <= pt[3] /\ pt[3] <= plant.z_max
                      /\ n_vertical > 1 =>
                            /\ (pt[3] - plant.z_min) * (n_vertical - 1) =
                                   (plant.z_max - plant.z_min) * j
                            /\ j = 0 => pt[3] = plant.z_min
                            /\ j = n_vertical - 1 => pt[3] = plant.z_max
                      /\ n_vertical = 1 =>
                            2 * pt[3] = plant.z_min + plant.z_max

\* a grid of four angles and at least two heights
C13_Witness ==
    /\ pc = "scan"
    /\ n_angular = 4
    /\ n_vertical >= 2
    /\ sample_points[2][3] # sample_points[1][3]
    /\ sample_points[n_vertical + 1][1] # sample_points[1][1]

-----------------------------------------------------------------------------
(* Properties of get_detailed_hit_info *)

\* C14: for the same sun angles, target, openings and sampling resolution
\* get_detailed_hit_info reports the same is_hit, the same window_id and the
\* same number of illuminated sample points as check_sun_hits_plant.
C14_DetailAgreesWithCheck ==
    (pc = "done" /\ detail # NoValue) =>
        /\ detail.is_hit = result.is_hit
        /\ sun_elevation_deg > 0 =>
              /\ detail.window_id = result.window_id
              /\ detail.n_hit_points = Len(result.hit_points)

-----------------------------------------------------------------------------
(* Statelessness of check_sun_hits_plant *)

-----------------------------------------------------------------------------
(* Errors of ray_window_intersection and check_sun_hits_plant *)

Raised == {"ValueError", "ZeroDivisionError"}

\* the ray test the scan of check_sun_hits_plant is about to make divides
\* by zero
ScanDividesByZero ==
    /\ pc = "scan"
    /\ point_index <= Len(sample_points)
    /\ window_index <= Len(windows)
    /\ DZero \in ray_divisors(sample_points[point_index], sun_dir,
                             windows[window_index])

\* every finished call has an ordinary hit or miss result
OrdinaryResults ==
    /\ ray_pc = "done" => ray_result.intersects \in BOOLEAN
    /\ pc = "done" =>
          /\ result.is_hit \in BOOLEAN
          /\ ~result.is_hit =>
                result.reason \in {"sun_below_horizon", "no_window_path"}

\* C16 as claimed: ray_window_intersection and check_sun_hits_plant raise no
\* error and never divide by zero, for any finite numeric inputs; every
\* input yields an ordinary hit or miss result.
C16_NeverRaises ==
    /\ ray_pc \notin Raised
    /\ pc \notin Raised
    /\ ~ScanDividesByZero
    /\ OrdinaryResults

\* C16 as amended: the same, for check_sun_hits_plant provided that
\* sun_azimuth_deg - (wall1_normal_azimuth - 180) is finite or the elevation
\* is <= 0.
C16_NeverRaisesFiniteSimplifiedAzimuth ==
    /\ ray_pc \notin Raised
    /\ pc \in Raised =>
          /\ pc = "ValueError"
          /\ sun_elevation_deg > 0
          /\ Abs(sun_azimuth_deg) >= HugeAngle
          /\ Abs(wall1_normal_azimuth) >= HugeAngle
    /\ ~ScanDividesByZero
    /\ OrdinaryResults

\* a miss through an opening without width, on the sun side, from an origin
\* in the plane of the opening
C16_Witness ==
    /\ ray_pc = "done"
    /\ window.width <= 0
    /\ SunSide
    /\ ray_origin[CallAxis + 1] = InnerCoord
    /\ Across[1] # 0
    /\ ~ray_result.intersects

-----------------------------------------------------------------------------
(* Properties of normalize, angle_between_vectors and project_onto_plane *)

GeoReturned == geo_pc \in {"done", "ValueError"}

\* the magnitude of v is < 1e-10
MagnitudeBelowLimit(v) == VDot(v, v) < ZeroLength * ZeroLength

VCross(a, b) ==
    <<a[2] * b[3] - a[3] * b[2], a[3] * b[1] - a[1] * b[3],
      a[1] * b[2] - a[2] * b[1]>>

\* u = num / sqrt(den2) is v / |v|: of length 1, parallel to v and of its
\* sense
IsUnitVectorAlong(u, v) ==
    /\ VDot(u.num, u.num) = u.den2
    /\ VCross(u.num, v) = <<0, 0, 0>>
    /\ VDot(u.num, v) > 0

GeoRaised == geo_pc = "ValueError" /\ geo_result = NoValue

\* C17: normalize raises a ValueError for every vector of magnitude < 1e-10
\* and returns v / |v| for every other vector; angle_between_vectors (for
\* either argument) and project_onto_plane (for the plane normal) raise
\* that error instead of returning a value.
C17_NormalizeContract ==
    GeoReturned =>
        /\ geo_fn = "normalize" =>
               IF MagnitudeBelowLimit(geo_args[1]) THEN GeoRaised
               ELSE /\ geo_pc = "done"
                    /\ IsUnitVectorAlong(geo_result, geo_args[1])
        /\ geo_fn = "angle_between_vectors" =>
               (MagnitudeBelowLimit(geo_args[1])
                    \/ MagnitudeBelowLimit(geo_args[2]) => GeoRaised)
        /\ geo_fn = "project_onto_plane" =>
               (MagnitudeBelowLimit(geo_args[2]) => GeoRaised)

\* The part of C17 that holds: the error is raised exactly for the
\* magnitudes < 1e-10 and is propagated by both callers, and normalize
\* returns v / |v| where the square of no component overflows.
C17_RaisesBelowLimitAndPropagates ==
    GeoReturned =>
        /\ geo_fn = "normalize" =>
               /\ GeoRaised <=> MagnitudeBelowLimit(geo_args[1])
               /\ geo_pc = "done" /\ ~norm_overflows(geo_args[1]) =>
                      IsUnitVectorAlong(geo_result, geo_args[1])
        /\ geo_fn = "angle_between_vectors" =>
               (GeoRaised <=> MagnitudeBelowLimit(geo_args[1])
                                  \/ MagnitudeBelowLimit(geo_args[2]))
        /\ geo_fn = "project_onto_plane" =>
               (GeoRaised <=> MagnitudeBelowLimit(geo_args[2]))

\* normalize has returned the zero vector for a vector with a component of
\* 1e200
C17_OverflowCase ==
    /\ geo_pc = "done" /\ geo_fn = "normalize"
    /\ geo_args[1] = <<HugeComponent, 0, 0>>
    /\ geo_result.num = <<0, 0, 0>>

-----------------------------------------------------------------------------
(* Properties of angles_from_sun_direction *)

AnglesReturned == geo_pc = "done" /\ geo_fn = "angles_from_sun_direction"

\* the direction was computed by sun_direction_from_angles from an azimuth
\* in [0, 360) and an elevation strictly between -90 and 90
RoundTripInDomain ==
    /\ geo_source # NoValue
    /\ 0 <= geo_source[1] /\ geo_source[1] < 360
    /\ -90 < geo_source[2] /\ geo_source[2] < 90

\* the angles returned are those the direction was computed from, within
\* the displacement of an angle (< 1e-10) and up to 360 degrees of azimuth
RoundTripReproduces ==
    /\ geo_result[1][1] - geo_source[1] \in {-360, 0, 360}
    /\ geo_result[2][1] = geo_source[2]

AzimuthInHalfOpenRange(a) ==
    ~AngleLess(a, <<0, 0>>) /\ AngleLess(a, <<360, 0>>)

\* C18: angles_from_sun_direction(sun_direction_from_angles(az, el)) returns
\* (az, el), up to 360 degrees of azimuth, for every azimuth in [0, 360) and
\* elevation strictly between -90 and 90, and the azimuth that
\* angles_from_sun_direction returns always lies in [0, 360).
C18_InverseWithAzimuthBelow360 ==
    AnglesReturned =>
        /\ RoundTripInDomain => RoundTripReproduces
        /\ AzimuthInHalfOpenRange(geo_result[1])

\* The part of C18 that holds: the round trip reproduces the angles of the
\* domain with an azimuth in [0, 360), and the azimuth returned for any
\* direction lies in [0, 360], the limit 360.0 included.
C18_InverseWithAzimuthUpTo360 ==
    AnglesReturned =>
        /\ RoundTripInDomain =>
               RoundTripReproduces /\ AzimuthInHalfOpenRange(geo_result[1])
        /\ ~AngleLess(geo_result[1], <<0, 0>>)
        /\ ~AngleLess(<<360, 0>>, geo_result[1])

\* the round trip of (270, 37) has gone through the branch that adds 360
C18_RoundTripCase ==
    /\ AnglesReturned
    /\ geo_source = <<270, 37>>
    /\ geo_result = <<(<<270, 0>>), (<<37, 0>>)>>

\* angles_from_sun_direction has returned the azimuth 360.0 for the
\* direction sun_direction_from_angles(360, 0) = [-2.4e-16, 1.0, 0.0]
C18_Azimuth360Case ==
    /\ AnglesReturned
    /\ geo_source = <<360, 0>>
    /\ geo_result[1] = <<360, 0>>

-----------------------------------------------------------------------------
(* Unit length of the sun direction *)

\* |d| * |d| for a direction d in 25ths, as a polynomial in the residue: 1.0
\* is 625 at the exact order
SquaredMagnitude(d) ==
    LET v == [k \in 1..3 |-> PDir(d[k])] IN PDot(v, v)

\* |d| = 1 within 1e-10: the exact order of |d|^2 is 1 and what the
\* residues add is a few hundred times 6e-17 at most
IsUnitLength(d) ==
    /\ SquaredMagnitude(d)[1] = 625
    /\ \A k \in 2..6 : Abs(SquaredMagnitude(d)[k]) <= 2500

\* C19: sun_direction_from_angles returns a vector of magnitude 1 (within
\* 1e-10) for every azimuth and elevation of the grid, and the sun_direction
\* returned by check_sun_hits_plant for an elevation > 0 is of unit length
\* as well.
C19_UnitLength ==
    /\ geo_pc = "done" /\ geo_fn = "sun_direction_from_angles" =>
           IsUnitLength(geo_result)
    /\ pc = "done" /\ sun_elevation_deg > 0 =>
           /\ result.sun_direction # NoValue
           /\ IsUnitLength(result.sun_direction)

\* sun_direction_from_angles(180, 37) has returned [9.8e-17, -0.8, 0.6],
\* east being a residue
C19_Witness ==
    /\ geo_pc = "done" /\ geo_fn = "sun_direction_from_angles"
    /\ geo_args = <<180, 37>>
    /\ geo_result = <<(<<0, 8, 0>>), (<<-20, 0, 0>>), (<<15, 0, 0>>)>>

\* check_sun_hits_plant has returned the direction of a sun at 37 degrees
\* of elevation in a frame rotated by less than 90 degrees
C19_HitResultCase ==
    /\ pc = "done" /\ sun_elevation_deg = 37 /\ wall1_normal_azimuth = 217
    /\ result.sun_direction # NoValue
    /\ IsUnitLength(result.sun_direction)

-----------------------------------------------------------------------------
(* Properties of simulate_time_range and consolidate_to_intervals *)

\* the value of check_sun_hits_plant is what the call, taken step by step,
\* returns
CheckValueIsCallResult ==
    pc = "done" =>
        result = check_sun_hits_plant(
                     sun_azimuth_deg, sun_elevation_deg, plant, windows,
                     n_angular, n_vertical, wall1_normal_azimuth)

IsHit(k) == results[k].hit_result.is_hit

\* the positions at which a maximal run of consecutive hits begins
RunStarts == {k \in DOMAIN results : IsHit(k) /\ (k = 1 \/ ~IsHit(k - 1))}

\* the number of hits of the run that begins at k
RunLength(k) ==
    Cardinality({m \in DOMAIN results :
                    m >= k /\ \A n \in k..m : IsHit(n)})

\* the j-th run, in input order
NthRunStart(j) ==
    CHOOSE k \in RunStarts : Cardinality({m \in RunStarts : m < k}) = j - 1

RECURSIVE SumTimestamps(_, _)
SumTimestamps(is, n) ==
    IF n = 0 THEN 0 ELSE is[n].n_timestamps + SumTimestamps(is, n - 1)

Consolidated == sim_pc \in {"count", "done"}

OneIntervalPerRun ==
    /\ Len(intervals) = Cardinality(RunStarts)
    /\ \A j \in DOMAIN intervals :
           /\ intervals[j].start_timestamp = results[NthRunStart(j)].timestamp
           /\ intervals[j].n_timestamps = RunLength(NthRunStart(j))

CountsAgree ==
    /\ simulation.hit_intervals = intervals
    /\ SumTimestamps(intervals, Len(intervals)) = simulation.hit_count
    /\ simulation.hit_count + simulation.miss_count
           = simulation.total_timestamps
    /\ simulation.total_timestamps = Len(sun_data)

\* C20: consolidate_to_intervals returns, in input order, exactly one
\* interval per maximal run of consecutive hit results, starting at the
\* timestamp of the run's first hit and with n_timestamps the run's length
\* (so two successive intervals are separated by a miss, and a run that is
\* open at the end of the input is emitted); the n_timestamps sum to the
\* hit_count of simulate_time_range, and hit_count + miss_count =
\* total_timestamps = the number of sun data points.
C20_OneIntervalPerRun ==
    /\ sim_pc # "ValueError"
    /\ Consolidated => OneIntervalPerRun
    /\ sim_pc = "done" => CountsAgree

\* The part of C20 that holds: whenever consolidate_to_intervals returns,
\* its intervals are the maximal runs and the counts agree; it raises only
\* where the miss that ends a run has the timestamp of an earlier miss.
C20_OneIntervalPerRunWhenReturned ==
    /\ Consolidated => OneIntervalPerRun
    /\ sim_pc = "done" => CountsAgree
    /\ sim_pc = "ValueError" =>
           \E k \in 1..(result_index - 1) :
               /\ results[k].timestamp = results[result_index].timestamp
               /\ ~IsHit(k) /\ ~IsHit(result_index)

\* hit, miss, hit: two intervals of one timestamp each, the second one open
\* at the end of the input
C20_TwoRunsCase ==
    /\ sim_pc = "done"
    /\ Len(results) = 3 /\ IsHit(1) /\ ~IsHit(2) /\ IsHit(3)
    /\ Len(intervals) = 2
    /\ intervals[2].start_timestamp = results[3].timestamp
    /\ simulation.hit_count = 2 /\ simulation.miss_count = 1

\* results.index has raised: a miss behind the wall at t1, a hit at t2, and
\* a second miss behind the wall at t1
C20_IndexRaisesCase ==
    /\ sim_pc = "ValueError"
    /\ Len(results) = 3 /\ result_index = 3
    /\ results[1].timestamp = "t1" /\ results[3].timestamp = "t1"
    /\ results[1].hit_result.reason = "no_window_path"
    /\ IsHit(2)
    /\ results[3].hit_result.reason = "no_window_path"

-----------------------------------------------------------------------------
(* Properties of check_plant_sun.py *)

\* the only line of stdout says "off": off in plain mode, a JSON object
\* with is_hit false with --json
SaysOff == stdout = <<Line(IF args.json THEN "json" ELSE "plain", FALSE)>>

\* C21: main() never ends with a non-zero exit status, for every argument
\* list, and whenever computing the answer has failed it has printed "off"
\* in plain mode, or with --json a JSON object whose is_hit is false, and
\* exits with status 0.
C21_AlwaysOffAndZero ==
    cli_pc = "exited" =>
        /\ exit_status = 0
        /\ cli_error # None => SaysOff

\* The part of C21 that holds: the exit status is 0 for every argument list
\* that argparse accepts, every failure prints one line whose is_hit is
\* false, and that line has the format asked for except where the default
\* configuration fails before any angle is known.
C21_OffAndZeroOnceParsed ==
    cli_pc = "exited" =>
        /\ exit_status # 0 <=> argparse_rejects(args)
        /\ cli_error # None =>
               /\ Len(stdout) = 1 /\ ~stdout[1].is_hit
               /\ ~SaysOff <=>
                      /\ args.json /\ args.config = None
                      /\ Len(args.positionals) < 2
                      /\ cli_error = "get_current_sun_position"

\* --json alone, no default configuration: "off" was printed in plain text
C21_PlainOffWithJsonCase ==
    /\ cli_pc = "exited" /\ args.json /\ args.config = None
    /\ args.positionals = <<>>
    /\ cli_error = "get_current_sun_position"
    /\ stdout = <<Line("plain", FALSE)>>

\* an azimuth that is not a number: exit status 2 and nothing on stdout
C21_ArgparseExitCase ==
    /\ cli_pc = "exited" /\ exit_status = 2 /\ stdout = <<>>
    /\ args.positionals = <<"abc", "37">>

-----------------------------------------------------------------------------
(* C22: the configuration cache, calls one after the other *)

\* thread t takes a step inside load_config or clear_config_cache
Moves(t) == svc_pc'[t] # svc_pc[t]

\* the cache holds a Config under the path thread t was called with
CachedFor(t) == cached_config # NoValue /\ cached_config_path = svc_path[t]

CacheUnchanged == UNCHANGED <<cached_config, cached_config_path>>

\* a call whose path is the cached one goes to the return of line 67, reads
\* no file, leaves the cache alone and returns the cached Config
SamePathReturnsCached(t) ==
    (svc_pc[t] \in {"check_config", "check_path", "return_cached"} /\ CachedFor(t))
        => /\ reads' = reads
           /\ CacheUnchanged
           /\ svc_pc[t] = "check_config" => svc_pc'[t] = "check_path"
           /\ svc_pc[t] = "check_path" => svc_pc'[t] = "return_cached"
           /\ svc_pc[t] = "return_cached" =>
                 /\ svc_pc'[t] = "idle"
                 /\ svc_returned'[t] = ReturnedValue(cached_config)

\* a call whose path is not the cached one, or that finds the cache empty,
\* reads the file of its path once
OtherPathOrEmptyReloads(t) ==
    /\ (svc_pc[t] = "check_config" /\ cached_config = NoValue)
          => svc_pc'[t] = "load"
    /\ (svc_pc[t] = "check_path" /\ cached_config_path # svc_path[t])
          => svc_pc'[t] = "load"
    /\ svc_pc[t] = "load"
          => reads' = [reads EXCEPT ![svc_path[t]] = @ + 1]

\* a load that succeeds replaces the cache by the pair of its path and the
\* Config parsed from the file as it was read, and returns that Config
LoadReplacesCache(t) ==
    (svc_pc[t] = "return_loaded" /\ svc_pc'[t] = "idle")
        => /\ cached_config' = svc_loaded[t]
           /\ svc_loaded[t].path = svc_path[t]
           /\ cached_config_path' = svc_path[t]
           /\ svc_returned'[t] = ReturnedValue(svc_loaded[t])

\* a load that fails leaves the cached pair as it was
FailedLoadKeepsCache(t) ==
    svc_returned'[t] = RaisedException => CacheUnchanged

\* clear_config_cache leaves the cache empty
ClearEmptiesCache(t) ==
    (svc_pc[t] = "clear_path" /\ svc_pc'[t] = "idle")
        => cached_config' = NoValue /\ cached_config_path' = None

\* C22: with calls made one after the other, load_config caches one parsed
\* configuration keyed by file path: a call with the cached path returns the
\* cached Config without reading the file, a call with another path reloads
\* and replaces the cache, after clear_config_cache the next load_config
\* reads the file again, and a failing load leaves the cached pair intact.
C22_CacheKeyedByPath ==
    [][\A t \in Threads :
          Moves(t) => /\ SamePathReturnsCached(t)
                      /\ OtherPathOrEmptyReloads(t)
                      /\ LoadReplacesCache(t)
                      /\ FailedLoadKeepsCache(t)
                      /\ ClearEmptiesCache(t)]_vars

\* two calls with the same path have returned the Config read by the first
\* one, although the file has been rewritten since
C22_Witness ==
    /\ \A t \in Threads :
          /\ svc_pc[t] = "idle"
          /\ svc_path[t] = "p.json"
          /\ svc_returned[t] = ReturnedValue(ParsedConfig("p.json", 1))
    /\ reads["p.json"] = 1
    /\ disk["p.json"] = 2

\* a load of q.json has failed while the Config of p.json was cached
C22_FailedLoadCase ==
    /\ svc_returned[2] = RaisedException
    /\ svc_path[2] = "q.json"
    /\ cached_config = ParsedConfig("p.json", 1)
    /\ cached_config_path = "p.json"

-----------------------------------------------------------------------------
(* C28: the configuration cache under concurrent calls *)

\* a populated cache holds a path and the Config parsed from that path
CachePairConsistent ==
    cached_config # NoValue =>
        /\ cached_config_path # None
        /\ cached_config.path = cached_config_path

\* what load_config(p) has returned was parsed from p
ReturnedFromOwnPath ==
    \A t \in Threads :
        (svc_path[t] # None /\ svc_returned[t] # NotReturned
            /\ svc_returned[t] # RaisedException)
            => /\ svc_returned[t].kind = "Config"
               /\ svc_returned[t].config.path = svc_path[t]

\* C28: under every interleaving of concurrent load_config and
\* clear_config_cache calls a populated cache pairs _cached_config_path with
\* the Config parsed from that path, and load_config(p) never returns a
\* configuration loaded from another path.
\* (The state between the two assignments of one call is left out: the pair
\* is required whenever no thread stands between its own two stores.)
C28_CachePairsPathWithItsConfig ==
    /\ (\A t \in Threads : svc_pc[t] \notin {"store_path", "clear_path"})
          => CachePairConsistent
    /\ ReturnedFromOwnPath

\* the same with calls made one after the other, observed between calls
C28_ConsistentBetweenSequentialCalls ==
    (\A t \in Threads : svc_pc[t] = "idle")
        => CachePairConsistent /\ ReturnedFromOwnPath

\* the cache holds the Config of one path under the other path
C28_MismatchedPairCase ==
    /\ cached_config # NoValue /\ cached_config_path # None
    /\ cached_config.path # cached_config_path

\* load_config(p) has returned the Config of another path
C28_ForeignConfigCase ==
    \E t \in Threads :
        /\ svc_pc[t] = "idle" /\ svc_path[t] # None
        /\ svc_returned[t].kind = "Config"
        /\ svc_returned[t].config.path # svc_path[t]

\* load_config has returned None
C28_NoneReturnedCase ==
    \E t \in Threads :
        /\ svc_pc[t] = "idle" /\ svc_path[t] # None
        /\ svc_returned[t].kind = "None"

-----------------------------------------------------------------------------
(* C23: the order of the scan *)

RECURSIVE LitPrefix(_)
\* the illuminated sample points among the first k, in generation order
LitPrefix(k) ==
    IF k = 0 THEN <<>>
    ELSE IF \E j \in DOMAIN windows : Lit(k, j)
         THEN Append(LitPrefix(k - 1), CallPoints[k])
         ELSE LitPrefix(k - 1)

\* the first opening, in list order, that the ray of sample point i passes
\* through
FirstLitWindow(i) == Lowest({j \in DOMAIN windows : Lit(i, j)})

\* the id credited once the first k sample points are scanned
CreditedAfter(k) ==
    LET lit == {i \in 1..k : \E j \in DOMAIN windows : Lit(i, j)}
    IN  IF lit = {} THEN None ELSE windows[FirstLitWindow(Lowest(lit))].id

\* the ray of sample point i passes through some opening of the list
LitPoint(i) == \E j \in DOMAIN windows : Lit(i, j)

\* while the scan stands at point point_index and opening window_index, no
\* earlier opening of the list lets the ray of that point through
ScanInOrder ==
    (pc = "scan" /\ point_index <= Len(sample_points)) =>
        \A j \in 1..(window_index - 1) :
            j <= Len(windows) => ~Lit(point_index, j)

\* the scan starts with the generated points, at the first point and the
\* first opening, with nothing recorded
ScanStart ==
    (pc = "call" /\ pc' = "scan") =>
        /\ sample_points' = CallPoints
        /\ point_index' = 1 /\ window_index' = 1
        /\ hit_points' = <<>> /\ hit_window_id' = None

\* one step of the scan: either the next opening for the same point, after
\* an opening that does not let the ray through, or the next point, which
\* is recorded (once) exactly if one of the openings lets its ray through;
\* the first id credited is kept
ScanStep ==
    (pc = "scan" /\ pc' = "scan") =>
        /\ sample_points' = sample_points
        /\ \/ /\ point_index' = point_index
              /\ window_index' = window_index + 1
              /\ ~Lit(point_index, window_index)
              /\ UNCHANGED <<hit_points, hit_window_id>>
           \/ /\ point_index' = point_index + 1
              /\ window_index' = 1
              /\ IF LitPoint(point_index)
                 THEN /\ hit_points' =
                            Append(hit_points, sample_points[point_index])
                      /\ Lit(point_index, window_index)
                      /\ hit_window_id' =
                            IF hit_points = <<>>
                            THEN windows[window_index].id ELSE hit_window_id
                 ELSE UNCHANGED <<hit_points, hit_window_id>>

\* the result holds what the scan recorded once it has passed the last point
ScanEnd ==
    (pc = "scan" /\ pc' = "done") =>
        /\ point_index = Len(sample_points) + 1
        /\ result'.hit_points = hit_points
        /\ result'.window_id = hit_window_id

\* C23: the scan takes the sample points in generation order and, for each
\* point, the openings in list order, and leaves a point at its first
\* intersecting opening: hit_points is the subsequence of the sample points
\* whose ray passes through some opening, each once, and window_id is the
\* first intersecting opening of the first point hit, never overwritten.
C23_ScanOrder ==
    /\ [](ScanInOrder
            /\ ((pc = "done" /\ sun_elevation_deg > 0) =>
                   /\ result.hit_points = LitPrefix(Len(CallPoints))
                   /\ result.window_id = CreditedAfter(Len(CallPoints))))
    /\ [][ScanStart /\ ScanStep /\ ScanEnd]_vars

\* a finished scan in which an unlit point lies before the lit ones and a
\* later lit point has another first opening than the one credited
C23_Witness ==
    /\ pc = "done"
    /\ sun_elevation_deg > 0
    /\ result.is_hit
    /\ 1 \notin LitPoints
    /\ \E i \in LitPoints :
          windows[FirstLitWindow(i)].id # result.window_id

\* a finished scan with a point whose ray passes through two entries of the
\* list of openings
C23_TwoOpeningsCase ==
    /\ pc = "done"
    /\ sun_elevation_deg > 0
    /\ result.is_hit
    /\ \E i \in LitPoints :
          \E j, k \in DOMAIN windows :
              j # k /\ Lit(i, j) /\ Lit(i, k)

-----------------------------------------------------------------------------
(* C24: the order of the two faces of the tunnel *)

\* the results of the two plane tests of lines 197-204 for the ray cast
InnerResult ==
    intersect_axis_aligned_plane(
        ray_origin, ray_direction, plane_axis_of(window),
        window.center[plane_axis_of(window) + 1], window)

OuterResult ==
    intersect_axis_aligned_plane(
        ray_origin, ray_direction, plane_axis_of(window),
        window.center[plane_axis_of(window) + 1] - window.wall_thickness, window)

\* t1 < t2 for two quotients over the same direction component
TLess(t1, t2) == (t1[1] - t2[1]) * DSgn(t1[2]) < 0

TunnelHit ==
    /\ ray_pc = "done"
    /\ window.wall_thickness > 0
    /\ ray_result.intersects

\* the outward normal of the opening points in the negative direction of
\* the axis across its plane: south (180) for a plane y = const, west (270)
\* for a plane x = const
NormalAlongNegativeAxis ==
    \/ plane_axis_of(window) = 1 /\ window.wall_normal_azimuth = 180
    \/ plane_axis_of(window) = 0 /\ window.wall_normal_azimuth = 270

\* C24: whenever ray_window_intersection reports a tunnel hit, the ray from
\* the target toward the sun crosses the inner plane first and the outer
\* plane second (t_inner < t_outer), for every outward-normal azimuth and
\* axis tag.
C24_InnerPlaneFirst ==
    TunnelHit => TLess(InnerResult.t, OuterResult.t)

\* the same for the openings of the simplified coordinate system
C24_InnerPlaneFirstOnNegativeSide ==
    (TunnelHit /\ NormalAlongNegativeAxis)
        => TLess(InnerResult.t, OuterResult.t)

\* a tunnel hit through an opening that faces north, the outer plane
\* crossed before the inner one
C24_OuterPlaneFirstCase ==
    /\ TunnelHit
    /\ window.wall_normal_azimuth = 0
    /\ plane_axis_of(window) = 1
    /\ TLess(OuterResult.t, InnerResult.t)

\* a tunnel hit through an opening of the simplified coordinate system
C24_NegativeSideCase ==
    /\ TunnelHit
    /\ NormalAlongNegativeAxis
    /\ ray_origin[plane_axis_of(window) + 1] > window.center[plane_axis_of(window) + 1]

-----------------------------------------------------------------------------
(* C25: the end of an interval *)

\* the position of the last hit of the run that begins at k
RunEnd(k) == k + RunLength(k) - 1

EndsAtLastHit ==
    \A j \in DOMAIN intervals :
        j <= Cardinality(RunStarts) =>
            intervals[j].end_timestamp
                = results[RunEnd(NthRunStart(j))].timestamp

\* two results of the input carry the same timestamp
RepeatedTimestamp ==
    \E k, m \in DOMAIN results :
        k # m /\ results[k].timestamp = results[m].timestamp

\* C25: every interval returned by consolidate_to_intervals has
\* end_timestamp equal to the timestamp of the last hit of its run, for
\* every input sequence, also when several results carry equal timestamps
\* and equal miss outcomes.
C25_EndIsLastHitOfRun == Consolidated => EndsAtLastHit

\* the same for inputs whose timestamps are all different
C25_EndIsLastHitOfRunDistinctTimestamps ==
    (Consolidated /\ ~RepeatedTimestamp) => EndsAtLastHit

\* a miss below the horizon at t1, a hit at t2 and a second miss below the
\* horizon at t1: the interval of the hit ends at t1
C25_WrongEndCase ==
    /\ sim_pc = "done"
    /\ Len(results) = 3
    /\ results[1].timestamp = "t1" /\ ~IsHit(1)
    /\ results[2].timestamp = "t2" /\ IsHit(2)
    /\ results[3] = results[1]
    /\ Len(intervals) = 1
    /\ intervals[1].start_timestamp = "t2"
    /\ intervals[1].end_timestamp = "t1"

\* runs closed by a miss and a run open at the end, all timestamps
\* different, every interval ending at the last hit of its run
C25_DistinctCase ==
    /\ sim_pc = "done"
    /\ ~RepeatedTimestamp
    /\ Len(results) = 3 /\ IsHit(1) /\ ~IsHit(2) /\ IsHit(3)
    /\ EndsAtLastHit

-----------------------------------------------------------------------------
(* C26: the shape of a returned HitResult *)

\* C26: every HitResult returned by check_sun_hits_plant has is_hit iff
\* hit_points is non-empty iff window_id is present iff reason is absent; a
\* present reason is "sun_below_horizon" or "no_window_path"; sun_direction
\* is absent exactly when the reason is "sun_below_horizon"; and on a hit
\* window_id is the id of an opening of the input list and every hit point
\* is one of the generated sample points.
C26_HitResultWellFormed ==
    pc = "done" =>
        /\ result.is_hit <=> result.hit_points # <<>>
        /\ result.is_hit <=> result.window_id # None
        /\ result.is_hit <=> result.reason = None
        /\ result.reason \in {None, "sun_below_horizon", "no_window_path"}
        /\ result.sun_direction = NoValue
              <=> result.reason = "sun_below_horizon"
        /\ result.is_hit =>
              /\ \E j \in DOMAIN windows : windows[j].id = result.window_id
              /\ \A k \in DOMAIN result.hit_points :
                    \E i \in DOMAIN CallPoints :
                        result.hit_points[k] = CallPoints[i]

\* a hit with several hit points, credited to the second opening of a list
\* of two different openings
C26_Witness ==
    /\ pc = "done"
    /\ result.is_hit
    /\ Len(result.hit_points) >= 2
    /\ Len(result.hit_points) < Len(CallPoints)
    /\ Len(windows) = 2
    /\ windows[1].id # windows[2].id
    /\ result.window_id = windows[2].id

\* a miss above the horizon: the reason and the direction are both present
C26_NoWindowPathCase ==
    /\ pc = "done"
    /\ sun_elevation_deg > 0
    /\ windows # <<>>
    /\ result.reason = "no_window_path"
    /\ result.sun_direction = CallDirection

-----------------------------------------------------------------------------
(* C27: wall thickness only removes hits *)

\* the opening w with its wall made T thick
WithThickness(w, T) == [w EXCEPT !.wall_thickness = T]

\* the lists of openings that differ from the list of the call only by
\* thinner walls
ThinnerLists ==
    {[j \in DOMAIN windows |-> WithThickness(windows[j], T[j])] :
        T \in {U \in [DOMAIN windows -> 0..MaxThickness] :
                  \A j \in DOMAIN windows : U[j] <= windows[j].wall_thickness}}

\* a ray that passes the tunnel passes every thinner one, with the same
\* result
ThinnerWallKeepsHit ==
    TunnelHit =>
        \A T \in 0..window.wall_thickness :
            ray_window_intersection(
                ray_origin, ray_direction, WithThickness(window, T))
                = ray_result

\* the sample points hit with the walls of the call are hit with thinner
\* walls
ThinnerWallsKeepHitPoints ==
    (pc = "done" /\ sun_elevation_deg > 0) =>
        \A ws \in ThinnerLists :
            \A k \in DOMAIN result.hit_points :
                \E i \in DOMAIN CallPoints :
                    /\ CallPoints[i] = result.hit_points[k]
                    /\ \E j \in DOMAIN ws :
                          ray_intersects_window(
                              CallPoints[i], CallDirection, ws[j])

\* C27: if ray_window_intersection reports a hit with wall_thickness T > 0,
\* it reports a hit with the same point, t and local offsets for the same
\* ray and the same opening with every thickness T' with 0 <= T' <= T;
\* hence the hit_points of check_sun_hits_plant with thick walls are among
\* its hit_points with the same walls made thinner.
C27_ThinnerWallKeepsHit == ThinnerWallKeepsHit /\ ThinnerWallsKeepHitPoints

\* a hit through a wall of thickness 2 with a ray that is not square to the
\* wall, so that it crosses the two faces at different offsets
C27_Witness ==
    /\ TunnelHit
    /\ window.wall_thickness = 2
    /\ InnerResult.local_h # OuterResult.local_h

\* a ray that passes the opening in a thin wall and is stopped by the
\* thick one
C27_ThickWallRemovesHitCase ==
    /\ ray_pc = "done"
    /\ window.wall_thickness > 0
    /\ ~ray_result.intersects
    /\ ray_intersects_window(ray_origin, ray_direction, WithThickness(window, 0))

\* a call whose thick wall stops the ray of a sample point that the same
\* wall made thin lets through
C27_ThickWallRemovesHitPointCase ==
    /\ pc = "done"
    /\ sun_elevation_deg > 0
    /\ \E ws \in ThinnerLists :
          \E i \in DOMAIN CallPoints :
              /\ ~LitPoint(i)
              /\ \E j \in DOMAIN ws :
                    ray_intersects_window(CallPoints[i], CallDirection, ws[j])

-----------------------------------------------------------------------------
(* C29: the axis of an opening without an axis tag *)

\* the entry carries no axis, and its wall names none
NoAxisTag == window_dict.axis = None /\ window_dict.wall_axis = None

\* the loader and the engine choose the same kind of plane: axis "x" is the
\* plane y = const (plane_axis 1), axis "y" the plane x = const
SamePlane ==
    loaded_window.axis = "x"
        <=> plane_axis_of(untagged_window(window_dict)) = 1

\* C29: for an opening without an axis tag the axis Config.from_dict infers
\* agrees with the plane ray_window_intersection falls back to for a Window
\* with axis = None, for every centre, including centres with |x| = |y|.
C29_LoaderAndEngineAgree ==
    (load_pc = "loaded" /\ NoAxisTag) => SamePlane

\* the same for the centres with |x| # |y|
C29_LoaderAndEngineAgreeOffDiagonal ==
    (load_pc = "loaded" /\ NoAxisTag
        /\ Abs(window_dict.center[1]) # Abs(window_dict.center[2]))
        => SamePlane

\* a centre on the diagonal: the loader infers axis "x", the plane y =
\* const, and the engine falls back to the plane x = const
C29_DiagonalCase ==
    /\ load_pc = "loaded"
    /\ NoAxisTag
    /\ window_dict.center = <<2, 2, 5>>
    /\ loaded_window.axis = "x"
    /\ plane_axis_of(untagged_window(window_dict)) = 0

\* a centre off the diagonal and off both walls: both choose the plane y =
\* const, the loader the one through the corner
C29_OffDiagonalCase ==
    /\ load_pc = "loaded"
    /\ NoAxisTag
    /\ window_dict.center = <<3, 1, 5>>
    /\ loaded_window.axis = "x"
    /\ loaded_window.center = <<3, 0, 5>>
    /\ plane_axis_of(untagged_window(window_dict)) = 1

-----------------------------------------------------------------------------
(* C30: the reference azimuth of the entry points *)

\* check_sun_hits_plant for query k of the call, with the reference azimuth
\* given explicitly
ReferenceResult(k, wall1_azimuth) ==
    check_sun_hits_plant(
        entry_args[k][1], entry_args[k][2], entry_config.plant,
        entry_config.windows, entry_config.sample_points_angular,
        entry_config.sample_points_vertical, wall1_azimuth)

\* what the entry point returns if the hit test of query k returns r(k)
ReturnedFor(r(_)) ==
    CASE entry_fn = "check_sun_hits_plant_from_config" -> entry_result = r(1)
      [] entry_fn = "simulate_time_range" ->
            /\ Len(entry_result) = Len(entry_args)
            /\ \A k \in DOMAIN entry_args : entry_result[k] = r(k)
      [] entry_fn = "check_sunlight" -> entry_result = r(1).is_hit
      [] entry_fn = "get_sunlight_details" ->
            /\ entry_result.is_hit = r(1).is_hit
            /\ entry_result.window_id = r(1).window_id
            /\ entry_result.reason = r(1).reason
            /\ entry_result.n_hit_points = Len(r(1).hit_points)
      [] entry_fn = "get_sunlight_state" ->
            entry_result = (IF r(1).is_hit THEN "direct_sun"
                            ELSE IF r(1).reason = "sun_below_horizon"
                                 THEN "below_horizon" ELSE "no_window_path")

WithDefaultAzimuth(k) == ReferenceResult(k, DefaultWall1NormalAzimuth)

WithDeclaredAzimuth(k) ==
    ReferenceResult(k, entry_config.walls[1].outward_normal_azimuth_deg)

\* C30: the entry points that take a Config evaluate every query with the
\* reference wall azimuth 210 degrees, whatever azimuth the walls of the
\* configuration declare: each per-query result is that of
\* check_sun_hits_plant(az, el, config.plant, config.windows, the sampling
\* resolution of the config, wall1_normal_azimuth = 210).
C30_DefaultReferenceAzimuth ==
    entry_pc = "done" => ReturnedFor(WithDefaultAzimuth)

\* the wall of the configuration declares another azimuth than the default
DeclaresOtherAzimuth ==
    entry_config.walls[1].outward_normal_azimuth_deg
        # DefaultWall1NormalAzimuth

\* a configuration whose wall declares another azimuth than 210, queried
\* through simulate_time_range at a position where the declared azimuth
\* would give another answer
C30_Witness ==
    /\ entry_pc = "done"
    /\ entry_fn = "simulate_time_range"
    /\ Len(entry_args) = 2
    /\ DeclaresOtherAzimuth
    /\ entry_result[1].is_hit # WithDeclaredAzimuth(1).is_hit

\* the same through check_sunlight
C30_CheckSunlightCase ==
    /\ entry_pc = "done"
    /\ entry_fn = "check_sunlight"
    /\ DeclaresOtherAzimuth
    /\ entry_result # WithDeclaredAzimuth(1).is_hit

====
